---------------------------- MODULE Spec2Model ----------------------------
(***************************************************************************)
(* Model of the hybrid retrieval engine and orphan-recovery pipeline of    *)
(* comment-probe-ai:                                                       *)
(*   - RateLimiter              src/src/utils/rate_limiter.py              *)
(*   - SearchEngine             src/src/ai/search_engine.py                *)
(*   - OrphanedCommentReassigner src/src/data/orphaned_reassigner.py       *)
(*   - Embedder, CacheManager   src/src/ai/embedder.py,                    *)
(*                              src/src/utils/cache_manager.py             *)
(*   - OpenAIClient             src/src/ai/openai_client.py                *)
(* Each component has its own specification (SpecLimiter, SpecSearch,      *)
(* SpecReassign, SpecEmbed, and SpecCache for the CacheManager called on   *)
(* its own) over the shared variable list; a component's variables stay at *)
(* their initial value under the other components' specifications.         *)
(***************************************************************************)
EXTENDS Integers, Sequences, FiniteSets, TLC

VARIABLES
    \* ---- RateLimiter (one shared instance) and its callers ----
    requests_per_minute,  \* self.requests_per_minute
    tokens_per_minute,    \* self.tokens_per_minute
    request_count,        \* self.request_count
    token_count,          \* self.token_count
    window_age,           \* time.time() - self.window_start, in clock ticks, saturating at Window
    lock,                 \* self.lock: NoCaller when free, else the caller holding it
    pc,                   \* position of every caller inside acquire()
    estimated_tokens,     \* argument of every caller's current acquire()
    sleep_left,           \* ticks left of every caller's time.sleep()
    waited,               \* history: the caller's current acquire() has slept
    window_log,           \* history: the acquires granted since the last reset, oldest first
    recent                \* history: per age in ticks (below Window), the number and the
                          \* total cost of the acquires granted that long ago; <<>> under
                          \* the specifications that do not keep this history
    ,
    \* ---- SearchEngine ----
    batch_size,           \* Config.BATCH_SIZE
    video,                \* video.comments of the group searched: a sequence of comment ids
    search                \* the execute_search call in progress or just finished: its
                          \* locals (top_results is what stage 1 returned), its result,
                          \* and the history of its rerank batches
    ,
    \* ---- OrphanedCommentReassigner ----
    reassigner,           \* the instance: embedder, similarity_threshold,
                          \* create_unassigned_video, stats
    videos,               \* the list of Video objects handed to reassign_comments
    comment_state,        \* the Comment objects: embedding and provenance metadata
    last_call             \* history: number of reassign_comments calls made and the
                          \* arguments of the last one
    ,
    \* ---- Embedder, CacheManager, OpenAIClient ----
    embedding_batch_size, \* Config.EMBEDDING_BATCH_SIZE
    cache,                \* CacheManager.cache: per hash the vector, NoVec when absent
    cache_file,           \* the pickle file on disk: whether it exists and its bytes
    item_embedding,       \* comment.embedding of the comments handed to the embedder
    embedder,             \* the embed_comments / embed_text call in progress or just
                          \* finished, or the CacheManager call just made: its locals,
                          \* its result, and its history (save_cache calls made, how
                          \* the file access went)
    client,               \* the create_embedding / create_completion call in progress
                          \* or just finished, with the attempts tenacity has made
    wire                  \* history: operations begun, external calls of the current
                          \* one, whether an acquire has returned since the last call,
                          \* whether a call went out without one, per text the
                          \* successful encodings by unforced operations (up to 2),
                          \* and the dict that the save_cache behind the file wrote

limiterVars == <<requests_per_minute, tokens_per_minute, request_count, token_count,
                 window_age, lock, pc, estimated_tokens, sleep_left, waited,
                 window_log, recent>>

searchVars == <<batch_size, video, search>>

reassignVars == <<reassigner, videos, comment_state, last_call>>

embedVars == <<embedding_batch_size, cache, cache_file, item_embedding, embedder,
               client, wire>>

vars == <<limiterVars, searchVars, reassignVars, embedVars>>

\* What each component's actions leave alone.
notLimiterVars == <<searchVars, reassignVars, embedVars>>
notSearchVars == <<limiterVars, reassignVars, embedVars>>
notReassignVars == <<limiterVars, searchVars, embedVars>>
notEmbedVars == <<limiterVars, searchVars, reassignVars>>

\* A component that a specification does not exercise stays as constructed here.
SearchParked ==
    /\ batch_size = 0
    /\ video = <<>>
    /\ search = [pc |-> "parked"]

ReassignParked ==
    /\ reassigner = [embedder |-> FALSE]
    /\ videos = <<>>
    /\ comment_state = <<>>
    /\ last_call = [n |-> 0]

EmbedParked ==
    /\ embedding_batch_size = 0
    /\ cache = <<>>
    /\ cache_file = [exists |-> FALSE]
    /\ item_embedding = <<>>
    /\ embedder = [pc |-> "parked"]
    /\ client = [pc |-> "parked"]
    /\ wire = [ops |-> 0]

LimiterParked ==
    /\ requests_per_minute = 0
    /\ tokens_per_minute = 0
    /\ request_count = 0
    /\ token_count = 0
    /\ window_age = 0
    /\ lock = "none"
    /\ pc = <<>>
    /\ estimated_tokens = <<>>
    /\ sleep_left = <<>>
    /\ waited = <<>>
    /\ window_log = <<>>
    /\ recent = <<>>

(***************************************************************************)
(*                              RateLimiter                                *)
(***************************************************************************)

\* Clock resolution: the 60 s window of rate_limiter.py:72/108 is Window clock
\* ticks long.  time.sleep(wait_time + 0.1) sleeps at least wait_time ticks: the
\* 0.1 s buffer is below the clock's resolution.
TicksPerWindow == 3
Window == TicksPerWindow

\* Bounds on the configurations and on the cost estimates tried.
MaxRpm == 2
MaxTpm == 2
MaxCost == 2

Callers == {"c1", "c2"}
NoCaller == "none"

Max(a, b) == IF a >= b THEN a ELSE b
Min(a, b) == IF a <= b THEN a ELSE b

NoRecent == <<>>
EmptyRecent == [a \in 0..(Window - 1) |-> [n |-> 0, cost |-> 0]]

InitCallers ==
    /\ requests_per_minute \in 1..MaxRpm
    /\ tokens_per_minute \in 1..MaxTpm
    /\ request_count = 0
    /\ token_count = 0
    /\ window_age = 0
    /\ lock = NoCaller
    /\ pc = [c \in Callers |-> "idle"]
    /\ estimated_tokens = [c \in Callers |-> 0]
    /\ sleep_left = [c \in Callers |-> 0]
    /\ waited = [c \in Callers |-> FALSE]
    /\ window_log = <<>>

\* rate_limiter.py:108  `if elapsed >= 60`
WindowExpired == window_age >= Window

\* The loop condition with the request test off by one.
MustWait_OffByOne(c) ==
    \/ request_count > requests_per_minute
    \/ token_count + estimated_tokens[c] > tokens_per_minute

\* rate_limiter.py:66-69, the loop condition of acquire()
MustWait(c) ==
    \/ request_count >= requests_per_minute
    \/ token_count + estimated_tokens[c] > tokens_per_minute

\* rate_limiter.py:71-72  wait_time = max(0, 60 - elapsed)
WaitTime == Max(0, Window - window_age)

\* _reset_if_needed() (lines 99-115) applied to the counters, the window and
\* the history of the current window; the caller holds the lock.
ResetCounters ==
    IF WindowExpired
    THEN /\ request_count' = 0
         /\ token_count' = 0
         /\ window_age' = 0
         /\ window_log' = <<>>
    ELSE UNCHANGED <<request_count, token_count, window_age, window_log>>

\* A caller enters acquire(estimated_tokens) and queues for the lock.
Call(c, cost) ==
    /\ pc[c] = "idle"
    /\ pc' = [pc EXCEPT ![c] = "enter"]
    /\ estimated_tokens' = [estimated_tokens EXCEPT ![c] = cost]
    /\ UNCHANGED <<requests_per_minute, tokens_per_minute, request_count, token_count,
                   window_age, lock, sleep_left, waited, window_log, recent>>
    /\ UNCHANGED notLimiterVars

\* Lines 62-63: `with self.lock:` takes the lock, then _reset_if_needed().
Enter(c) ==
    /\ pc[c] = "enter"
    /\ lock = NoCaller
    /\ lock' = c
    /\ ResetCounters
    /\ pc' = [pc EXCEPT ![c] = "check"]
    /\ UNCHANGED <<requests_per_minute, tokens_per_minute, estimated_tokens,
                   sleep_left, waited, recent>>
    /\ UNCHANGED notLimiterVars

\* The caller goes to sleep inside the `with` block without line 82.
StartSleep_KeepsLock(c) ==
    /\ pc[c] = "check"
    /\ lock = c
    /\ MustWait(c)
    /\ sleep_left' = [sleep_left EXCEPT ![c] = WaitTime]
    /\ waited' = [waited EXCEPT ![c] = TRUE]
    /\ pc' = [pc EXCEPT ![c] = "sleep"]
    /\ UNCHANGED <<requests_per_minute, tokens_per_minute, request_count, token_count,
                   window_age, lock, estimated_tokens, window_log, recent>>
    /\ UNCHANGED notLimiterVars

\* Lines 66-83: the loop test finds no capacity; the caller computes the wait,
\* releases the lock and starts sleeping.
StartSleep(c) ==
    /\ pc[c] = "check"
    /\ lock = c
    /\ MustWait(c)
    /\ sleep_left' = [sleep_left EXCEPT ![c] = WaitTime]
    /\ lock' = NoCaller
    /\ waited' = [waited EXCEPT ![c] = TRUE]
    /\ pc' = [pc EXCEPT ![c] = "sleep"]
    /\ UNCHANGED <<requests_per_minute, tokens_per_minute, request_count, token_count,
                   window_age, estimated_tokens, window_log, recent>>
    /\ UNCHANGED notLimiterVars

\* Lines 84-87: time.sleep() has returned; the caller takes the lock again and
\* runs _reset_if_needed() before the loop test.
Wake(c) ==
    /\ pc[c] = "sleep"
    /\ sleep_left[c] = 0
    /\ lock = NoCaller
    /\ lock' = c
    /\ ResetCounters
    /\ pc' = [pc EXCEPT ![c] = "check"]
    /\ UNCHANGED <<requests_per_minute, tokens_per_minute, estimated_tokens,
                   sleep_left, waited, recent>>
    /\ UNCHANGED notLimiterVars

\* Lines 66-97: the loop test finds capacity; lines 90-91 update the counters,
\* and leaving the `with` block releases the lock.  acquire() returns.
Grant(c) ==
    /\ pc[c] = "check"
    /\ lock = c
    /\ ~MustWait(c)
    /\ request_count' = request_count + 1
    /\ token_count' = token_count + estimated_tokens[c]
    /\ window_log' = Append(window_log, [cost |-> estimated_tokens[c], waited |-> waited[c]])
    /\ recent' = IF recent = NoRecent THEN NoRecent
                  ELSE [recent EXCEPT ![0] = [n |-> @.n + 1,
                                              cost |-> @.cost + estimated_tokens[c]]]
    /\ lock' = NoCaller
    /\ pc' = [pc EXCEPT ![c] = "idle"]
    /\ estimated_tokens' = [estimated_tokens EXCEPT ![c] = 0]
    /\ waited' = [waited EXCEPT ![c] = FALSE]
    /\ UNCHANGED <<requests_per_minute, tokens_per_minute, window_age, sleep_left>>
    /\ UNCHANGED notLimiterVars

\* A grant Window ticks old shares no window-long interval with a later grant:
\* the history drops it.
AgeGrants ==
    IF recent = NoRecent THEN NoRecent
    ELSE [a \in 0..(Window - 1) |-> IF a = 0 THEN [n |-> 0, cost |-> 0] ELSE recent[a - 1]]

\* One tick of the wall clock.
Tick ==
    /\ window_age' = Min(window_age + 1, Window)
    /\ sleep_left' = [c \in Callers |->
                        IF pc[c] = "sleep" THEN Max(0, sleep_left[c] - 1) ELSE sleep_left[c]]
    /\ recent' = AgeGrants
    /\ UNCHANGED <<requests_per_minute, tokens_per_minute, request_count, token_count,
                   lock, pc, estimated_tokens, waited, window_log>>
    /\ UNCHANGED notLimiterVars

CallerStep(c) ==
    \/ Enter(c)
    \/ StartSleep(c)
    \/ Wake(c)
    \/ Grant(c)

NextLimiter ==
    \/ \E c \in Callers, cost \in 0..MaxCost : Call(c, cost)
    \/ \E c \in Callers : CallerStep(c)
    \/ Tick

InitLimiter == InitCallers /\ recent = NoRecent /\ SearchParked /\ ReassignParked /\ EmbedParked
InitRolling ==
    InitCallers /\ recent = EmptyRecent /\ SearchParked /\ ReassignParked /\ EmbedParked

SpecLimiter == InitLimiter /\ [][NextLimiter]_vars

\* The same limiter, with the history of the last Window ticks kept.
SpecLimiterRolling == InitRolling /\ [][NextLimiter]_vars

\* Time keeps advancing and every caller inside acquire() keeps being scheduled;
\* a caller waiting for the lock gets it if it is free again and again.
SpecLimiterFair ==
    /\ InitLimiter /\ [][NextLimiter]_vars
    /\ WF_vars(Tick)
    /\ \A c \in Callers : /\ WF_vars(StartSleep(c) \/ Grant(c))
                          /\ SF_vars(Enter(c) \/ Wake(c))

(***************************************************************************)
(*                    Vectors and cosine similarity                        *)
(***************************************************************************)

\* Embeddings are two-dimensional integer vectors of integer length, so that a
\* cosine similarity is an exact number of hundredths.  NoVec is `None`.
NoVec == <<>>
Dot(a, b) == a[1] * b[1] + a[2] * b[2]
Magnitude(v) == CHOOSE n \in 0..5 : n * n = Dot(v, v)

\* helpers.py:25-50, in hundredths.
compute_cosine_similarity(vec1, vec2) ==
    IF Magnitude(vec1) = 0 \/ Magnitude(vec2) = 0
    THEN 0
    ELSE (100 * Dot(vec1, vec2)) \div (Magnitude(vec1) * Magnitude(vec2))

(***************************************************************************)
(*                              SearchEngine                               *)
(***************************************************************************)

\* Bounds: comments in the group searched, spec.top_k, Config.BATCH_SIZE.
MaxItems == 3
MaxTopK == 2
MaxBatchSize == 2

\* The comments a group is made of.  Of a comment's content the model keeps what
\* the filters read: its length, whether _is_spam finds one of its patterns in
\* it, and whether it contains a question mark.
SearchComments ==
    [s1 |-> [embedding |-> <<3, 4>>, len |-> 60, spam |-> FALSE, qmark |-> TRUE],
     s2 |-> [embedding |-> <<4, 3>>, len |-> 30, spam |-> FALSE, qmark |-> FALSE],
     s3 |-> [embedding |-> NoVec,    len |-> 60, spam |-> FALSE, qmark |-> TRUE],
     s4 |-> [embedding |-> <<3, 4>>, len |-> 60, spam |-> TRUE,  qmark |-> TRUE]]

\* What embed_text(spec.query) gives: a vector, or NoVec when it raises.
QueryOutcomes == {<<1, 0>>, <<3, 4>>, NoVec}

\* spec.filters, a dict: the keys present and their values.
FilterChoices ==
    {[keys |-> {}, min_length |-> 0, exclude_spam |-> FALSE, require_question_mark |-> FALSE],
     [keys |-> {"min_length"}, min_length |-> 50, exclude_spam |-> FALSE,
      require_question_mark |-> FALSE],
     [keys |-> {"min_length", "exclude_spam"}, min_length |-> 20, exclude_spam |-> TRUE,
      require_question_mark |-> FALSE],
     [keys |-> {"require_question_mark"}, min_length |-> 0, exclude_spam |-> FALSE,
      require_question_mark |-> TRUE]}

SeqsNoDup(S, n) ==
    {q \in UNION {[1..k -> S] : k \in 0..n} : \A i, j \in 1..Len(q) : i # j => q[i] # q[j]}

\* seq[:n] of Python.
SliceTo(seq, n) ==
    IF n >= 0 THEN SubSeq(seq, 1, Min(n, Len(seq)))
    ELSE SubSeq(seq, 1, Max(0, Len(seq) + n))

\* list.sort(key=lambda x: x[1], reverse=True) on <<item, score>> pairs with ties
\* put in reverse.
RECURSIVE InsertDesc_TiesReversed(_, _)
InsertDesc_TiesReversed(sorted, x) ==
    IF sorted = <<>> THEN <<x>>
    ELSE IF sorted[1][2] > x[2]
         THEN <<sorted[1]>> \o InsertDesc_TiesReversed(Tail(sorted), x)
         ELSE <<x>> \o sorted

\* list.sort(key=lambda x: x[1], reverse=True) on <<item, score>> pairs: Python's
\* sort is stable, also with reverse=True.  x goes after every pair scored at
\* least as high.
RECURSIVE InsertDesc(_, _)
InsertDesc(sorted, x) ==
    IF sorted = <<>> THEN <<x>>
    ELSE IF sorted[1][2] >= x[2]
         THEN <<sorted[1]>> \o InsertDesc(Tail(sorted), x)
         ELSE <<x>> \o sorted

RECURSIVE SortFrom(_, _)
SortFrom(acc, rest) ==
    IF rest = <<>> THEN acc ELSE SortFrom(InsertDesc(acc, rest[1]), Tail(rest))

SortDescStable(pairs) == SortFrom(<<>>, pairs)

Firsts(pairs) == [i \in 1..Len(pairs) |-> pairs[i][1]]
Seconds(pairs) == [i \in 1..Len(pairs) |-> pairs[i][2]]

\* _semantic_filter cutting the list to top_k before it sorts it.
SemanticFilter_CutsUnsorted(comments, query_embedding, top_k) ==
    LET embedded == SelectSeq(comments, LAMBDA c : SearchComments[c].embedding # NoVec)
        scored_comments ==
            [i \in 1..Len(embedded) |->
                <<embedded[i],
                  compute_cosine_similarity(query_embedding,
                                            SearchComments[embedded[i]].embedding)>>]
    IN  SortDescStable(SliceTo(scored_comments, top_k))

\* search_engine.py:108-149 (_semantic_filter), given the query embedding.
SemanticFilter(comments, query_embedding, top_k) ==
    LET embedded == SelectSeq(comments, LAMBDA c : SearchComments[c].embedding # NoVec)
        scored_comments ==
            [i \in 1..Len(embedded) |->
                <<embedded[i],
                  compute_cosine_similarity(query_embedding,
                                            SearchComments[embedded[i]].embedding)>>]
    IN  SliceTo(SortDescStable(scored_comments), top_k)

\* search_engine.py:151-187 (_apply_filters)
ApplyFilters(comments, filters) ==
    IF filters.keys = {} THEN comments
    ELSE LET f1 == IF "min_length" \in filters.keys
                   THEN SelectSeq(comments,
                                  LAMBDA c : SearchComments[c].len >= filters.min_length)
                   ELSE comments
             f2 == IF "exclude_spam" \in filters.keys /\ filters.exclude_spam
                   THEN SelectSeq(f1, LAMBDA c : ~SearchComments[c].spam)
                   ELSE f1
             f3 == IF "require_question_mark" \in filters.keys
                      /\ filters.require_question_mark
                   THEN SelectSeq(f2, LAMBDA c : SearchComments[c].qmark)
                   ELSE f2
         IN  f3

(***************************************************************************)
(* _parse_ranking_response.  A response is a sequence of characters; a     *)
(* score is a number of hundredths.                                        *)
(***************************************************************************)

Digits == {"0", "1", "2", "3", "4", "5", "6", "7", "8", "9"}

DigitValue(ch) ==
    CASE ch = "0" -> 0 [] ch = "1" -> 1 [] ch = "2" -> 2 [] ch = "3" -> 3 [] ch = "4" -> 4
      [] ch = "5" -> 5 [] ch = "6" -> 6 [] ch = "7" -> 7 [] ch = "8" -> 8 [] ch = "9" -> 9

\* The character class [\d\.\,\s] of the regular expression.
ArrayClass == Digits \cup {".", ",", " "}

\* The "]" that closes a match of \[[\d\.\,\s]+\] starting at position i, or 0:
\* the class excludes "]", so the greedy run stops before the first character
\* outside the class, which must be "]".
MatchEnd(text, i) ==
    IF text[i] # "["
    THEN 0
    ELSE LET run == {j \in (i + 1)..Len(text) : \A k \in (i + 1)..j : text[k] \in ArrayClass}
             last == i + Cardinality(run)
         IN  IF last > i /\ last < Len(text) /\ text[last + 1] = "]" THEN last + 1 ELSE 0

\* re.search: the text between the brackets of the leftmost match, or <<>> when
\* nothing matches (a match holds at least one character).
FindArray(text) ==
    LET starts == {i \in 1..Len(text) : MatchEnd(text, i) # 0}
    IN  IF starts = {} THEN <<>>
        ELSE LET i == CHOOSE a \in starts : \A b \in starts : a <= b
             IN  SubSeq(text, i + 1, MatchEnd(text, i) - 1)

RECURSIVE SplitComma(_)
SplitComma(text) ==
    LET commas == {i \in 1..Len(text) : text[i] = ","}
    IN  IF commas = {} THEN <<text>>
        ELSE LET i == CHOOSE a \in commas : \A b \in commas : a <= b
             IN  <<SubSeq(text, 1, i - 1)>> \o SplitComma(SubSeq(text, i + 1, Len(text)))

RECURSIVE Strip(_)
Strip(text) ==
    IF text = <<>> THEN text
    ELSE IF text[1] = " " THEN Strip(Tail(text))
    ELSE IF text[Len(text)] = " " THEN Strip(SubSeq(text, 1, Len(text) - 1))
    ELSE text

AllDigits(text) == text # <<>> /\ \A i \in 1..Len(text) : text[i] \in Digits

\* The integer and the fraction part of a token, split at its first ".".
IntPart(tok) ==
    LET dots == {i \in 1..Len(tok) : tok[i] = "."}
    IN  IF dots = {} THEN tok
        ELSE SubSeq(tok, 1, (CHOOSE a \in dots : \A b \in dots : a <= b) - 1)

FracPart(tok) ==
    LET dots == {i \in 1..Len(tok) : tok[i] = "."}
    IN  IF dots = {} THEN <<>>
        ELSE SubSeq(tok, (CHOOSE a \in dots : \A b \in dots : a <= b) + 1, Len(tok))

HasDot(tok) == \E i \in 1..Len(tok) : tok[i] = "."

\* A JSON number without sign and exponent (the class allows neither):
\* 0 or a digit string not starting with 0, then optionally "." and digits.
IsJsonNumber(tok) ==
    /\ AllDigits(IntPart(tok))
    /\ Len(IntPart(tok)) = 1 \/ IntPart(tok)[1] # "0"
    /\ HasDot(tok) => AllDigits(FracPart(tok))

RECURSIVE DigitsValue(_)
DigitsValue(text) ==
    IF text = <<>> THEN 0
    ELSE 10 * DigitsValue(SubSeq(text, 1, Len(text) - 1)) + DigitValue(text[Len(text)])

\* The number in hundredths (the digits after the second decimal are dropped).
JsonNumberValue(tok) ==
    LET frac == FracPart(tok)
    IN  100 * DigitsValue(IntPart(tok))
        + (IF Len(frac) >= 1 THEN 10 * DigitValue(frac[1]) ELSE 0)
        + (IF Len(frac) >= 2 THEN DigitValue(frac[2]) ELSE 0)

\* json.loads of the matched array: <<TRUE, values>>, or <<FALSE, <<>>>> when it
\* raises.
JsonLoadsArray(inner) ==
    IF Strip(inner) = <<>> THEN <<TRUE, <<>>>>
    ELSE LET toks == [i \in 1..Len(SplitComma(inner)) |-> Strip(SplitComma(inner)[i])]
         IN  IF \A i \in 1..Len(toks) : IsJsonNumber(toks[i])
             THEN <<TRUE, [i \in 1..Len(toks) |-> JsonNumberValue(toks[i])]>>
             ELSE <<FALSE, <<>>>>

\* The neutral score 0.5, in hundredths, for every comment of a batch.
NeutralScores(n) == [i \in 1..n |-> 50]

\* _parse_ranking_response without the test of the number of scores.
ParseRankingResponse_NoCountCheck(response, expected_count) ==
    LET inner == FindArray(response)
        loaded == JsonLoadsArray(inner)
    IN  IF inner # <<>> /\ loaded[1] THEN loaded[2] ELSE NeutralScores(expected_count)

\* search_engine.py:310-336 (_parse_ranking_response)
ParseRankingResponse(response, expected_count) ==
    LET inner == FindArray(response)
        loaded == JsonLoadsArray(inner)
    IN  IF inner # <<>> /\ loaded[1] /\ Len(loaded[2]) = expected_count
        THEN loaded[2]
        ELSE NeutralScores(expected_count)

(***************************************************************************)
(* execute_search and _llm_rerank                                          *)
(***************************************************************************)

\* What create_completion can give back for one batch: the text of the response
\* together with what a reader of the text sees in it, the array of numbers it
\* holds (in hundredths) when it holds a well-formed one.
Responses ==
    {[text |-> <<"[", "0", ".", "9", "]">>, parsable |-> TRUE, numbers |-> <<90>>],
     [text |-> <<"[", "0", ".", "2", ",", " ", "0", ".", "9", "]">>, parsable |-> TRUE,
      numbers |-> <<20, 90>>],
     [text |-> <<"[", "0", ".", "9", ",", "0", ".", "9", "]">>, parsable |-> TRUE,
      numbers |-> <<90, 90>>],
     [text |-> <<"o", "k", " ", "[", " ", "1", ".", "0", " ", "]">>, parsable |-> TRUE,
      numbers |-> <<100>>],
     [text |-> <<"[", "7", "]">>, parsable |-> TRUE, numbers |-> <<700>>],
     [text |-> <<"[", "-", "1", "]">>, parsable |-> FALSE, numbers |-> <<>>],
     [text |-> <<"[", "0", ".", "9", ",", "]">>, parsable |-> FALSE, numbers |-> <<>>],
     [text |-> <<"[", ".", "5", "]">>, parsable |-> FALSE, numbers |-> <<>>],
     [text |-> <<"n", "o">>, parsable |-> FALSE, numbers |-> <<>>]}

NoResponse == [text |-> <<>>, parsable |-> FALSE, numbers |-> <<>>]

\* The outcome of one create_completion call: it raises, or it returns a text.
BatchOutcomes ==
    {[raised |-> TRUE, response |-> NoResponse]}
    \cup {[raised |-> FALSE, response |-> r] : r \in Responses}

SearchSpecs == [top_k : 1..MaxTopK, filters : FilterChoices]

IdleSearch ==
    [pc |-> "idle", top_k |-> 0, query_embedding |-> NoVec, candidates |-> <<>>, i |-> 0,
     all_scores |-> <<>>, llm_calls |-> 0, api_calls |-> 0, outcomes |-> <<>>,
     matched_comments |-> <<>>, relevance_scores |-> <<>>, top_results |-> <<>>]

InitSearch ==
    /\ batch_size \in 1..MaxBatchSize
    /\ video \in SeqsNoDup(DOMAIN SearchComments, MaxItems)
    /\ search = IdleSearch
    /\ LimiterParked
    /\ ReassignParked
    /\ EmbedParked

\* list(zip(a, b)): as long as the shorter of the two.
Zip(a, b) == [k \in 1..Min(Len(a), Len(b)) |-> <<a[k], b[k]>>]

\* The handler of a failed completion call extending all_scores by one score.
ExceptionScores_OneScore(batch) == <<50>>

\* search_engine.py:263, [0.5] * len(batch)
ExceptionScores(batch) == NeutralScores(Len(batch))

\* execute_search up to the first completion call: stage 1, the filters, and
\* the whole rest of the call when nothing is left to rerank.  embed_text
\* raising ends the call with the exception.
ExecuteSearch(spec, query_embedding) ==
    /\ search.pc = "idle"
    /\ LET top_results == SemanticFilter(video, query_embedding, spec.top_k * 2)
           candidates == Firsts(top_results)
           filtered_candidates == ApplyFilters(candidates, spec.filters)
           started == [IdleSearch EXCEPT !.top_k = spec.top_k,
                                         !.query_embedding = query_embedding]
       IN  search' =
             IF query_embedding = NoVec
             THEN [started EXCEPT !.pc = "raised"]
             ELSE IF Len(filtered_candidates) > 0
             THEN [started EXCEPT !.pc = "rerank", !.api_calls = 1,
                                  !.candidates = filtered_candidates,
                                  !.top_results = top_results]
             ELSE [started EXCEPT !.pc = "done", !.api_calls = 1,
                                  !.top_results = top_results]
    /\ UNCHANGED <<batch_size, video>>
    /\ UNCHANGED notSearchVars

\* One iteration of the loop of _llm_rerank; the last iteration runs on to the
\* end of execute_search: zip, sort, truncation to top_k, and the result.  The
\* insights are computed from the sorted list and change nothing of it.
RerankBatch(outcome) ==
    /\ search.pc = "rerank"
    /\ LET batch == SubSeq(search.candidates, search.i + 1,
                           Min(search.i + batch_size, Len(search.candidates)))
           scores == IF outcome.raised
                     THEN ExceptionScores(batch)
                     ELSE ParseRankingResponse(outcome.response.text, Len(batch))
           all_scores == search.all_scores \o scores
           llm_calls == IF outcome.raised THEN search.llm_calls ELSE search.llm_calls + 1
           scored_comments == SortDescStable(Zip(search.candidates, all_scores))
           looped == [search EXCEPT !.i = @ + batch_size, !.all_scores = all_scores,
                                    !.llm_calls = llm_calls,
                                    !.outcomes = Append(@, outcome)]
       IN  search' =
             IF looped.i < Len(search.candidates)
             THEN looped
             ELSE [looped EXCEPT
                     !.pc = "done",
                     !.api_calls = @ + llm_calls,
                     !.matched_comments = SliceTo(Firsts(scored_comments), search.top_k),
                     !.relevance_scores = SliceTo(Seconds(scored_comments), search.top_k)]
    /\ UNCHANGED <<batch_size, video>>
    /\ UNCHANGED notSearchVars

\* The caller has the result (or the exception); the engine keeps nothing of a
\* search.
ReturnResult ==
    /\ search.pc \in {"done", "raised"}
    /\ search' = IdleSearch
    /\ UNCHANGED <<batch_size, video>>
    /\ UNCHANGED notSearchVars

NextSearch ==
    \/ \E spec \in SearchSpecs, query_embedding \in QueryOutcomes :
          ExecuteSearch(spec, query_embedding)
    \/ \E outcome \in BatchOutcomes : RerankBatch(outcome)
    \/ ReturnResult

SpecSearch == InitSearch /\ [][NextSearch]_vars

(***************************************************************************)
(*                       OrphanedCommentReassigner                         *)
(***************************************************************************)

\* Bounds: reassign_comments calls on one instance, orphans handed to one call.
MaxCalls == 2
MaxOrphans == 2

\* ---- strings: sequences of characters ----

LowerChar(ch) ==
    CASE ch = "A" -> "a" [] ch = "B" -> "b" [] ch = "C" -> "c" [] ch = "D" -> "d"
      [] ch = "E" -> "e" [] ch = "F" -> "f" [] ch = "G" -> "g" [] ch = "H" -> "h"
      [] ch = "I" -> "i" [] ch = "J" -> "j" [] ch = "K" -> "k" [] ch = "L" -> "l"
      [] ch = "M" -> "m" [] ch = "N" -> "n" [] ch = "O" -> "o" [] ch = "P" -> "p"
      [] ch = "Q" -> "q" [] ch = "R" -> "r" [] ch = "S" -> "s" [] ch = "T" -> "t"
      [] ch = "U" -> "u" [] ch = "V" -> "v" [] ch = "W" -> "w" [] ch = "X" -> "x"
      [] ch = "Y" -> "y" [] ch = "Z" -> "z" [] OTHER -> ch

\* str.lower()
Lower(str) == [k \in 1..Len(str) |-> LowerChar(str[k])]

\* The offsets at which sub occurs in str.
Occurrences(str, sub) ==
    {k \in 0..(Len(str) - Len(sub)) : SubSeq(str, k + 1, k + Len(sub)) = sub}

\* sub in str
Contains(str, sub) == Occurrences(str, sub) # {}

\* str.find(sub), when sub occurs in str
Find(str, sub) == CHOOSE k \in Occurrences(str, sub) : \A j \in Occurrences(str, sub) : k <= j

\* str[start:stop] for 0 <= start <= len(str)
Slice(str, start, stop) == SubSeq(str, start + 1, Min(stop, Len(str)))

Range(seq) == {seq[k] : k \in 1..Len(seq)}

\* The orders in which a Python set of these elements may be iterated.
IterationOrders(S) == {q \in [1..Cardinality(S) -> S] : Range(q) = S}

WatchToken == <<"w", "a", "t", "c", "h", "?", "v", "=">>
ShortToken == <<"y", "o", "u", "t", "u", ".", "b", "e", "/">>
UnassignedId == <<"U", "N", "A", "S", "S", "I", "G", "N", "E", "D">>

\* None, where the code has a string or None.
NoId == <<"None">>

\* orphaned_reassigner.py:404-426 (_extract_video_id_from_url)
ExtractVideoIdFromUrl(url) ==
    IF Contains(url, WatchToken)
    THEN Slice(url, Find(url, WatchToken) + 8, Find(url, WatchToken) + 8 + 11)
    ELSE IF Contains(url, ShortToken)
    THEN Slice(url, Find(url, ShortToken) + 9, Find(url, ShortToken) + 9 + 11)
    ELSE NoId

\* ---- the data ----

\* The comments that are in a group from the start, and the orphans.
NativeComments == {"n1", "n2"}
OrphanPool == {"o1", "o2", "o3", "o4", "o5", "o6"}

\* comment.parent_id
ParentId ==
    [n1 |-> <<"A", "b">>,
     n2 |-> <<"b">>,
     o1 |-> <<"a", "b">>,
     o2 |-> <<"x", "b">>,
     o3 |-> <<"w", "a", "t", "c", "h", "?", "v", "=", "b">>,
     o4 |-> <<"z", "z">>,
     o5 |-> <<"z", "z">>,
     o6 |-> <<"N">>]

\* The vector the embedding service gives for the comment's text.
\* To the two native comments, o4 is equally similar (60 and 60), o5 is closer
\* to n1 (80 and -80), and o6 is at best orthogonal (0 and -96).
Vector ==
    [n1 |-> <<3, 4>>, n2 |-> <<3, -4>>,
     o1 |-> <<1, 0>>, o2 |-> <<0, 1>>, o3 |-> <<0, 1>>,
     o4 |-> <<1, 0>>, o5 |-> <<0, 1>>, o6 |-> <<-4, 3>>]

\* similarity_threshold, in hundredths; 70 is the default.  __init__ takes any
\* float.
SimilarityThresholds == {-100, 0, 70}

NoScore == <<0, 0>>

NewComment(c, embedded) ==
    [embedding |-> IF embedded THEN Vector[c] ELSE NoVec,
     reassigned |-> "",
     original_parent_id |-> NoId,
     similarity_score |-> NoScore]

NewStats ==
    [total_orphaned |-> 0, recovered_by_pattern |-> 0, recovered_by_similarity |-> 0,
     unassigned |-> 0, recovery_rate |-> <<0, 1>>]

\* The instance after __init__, the groups as step2.5_reassign_orphaned.py has
\* them before the call (their comments embedded when there is an embedder), and
\* the orphans as loaded.
InitReassign ==
    /\ \E e \in BOOLEAN, t \in SimilarityThresholds, u \in BOOLEAN :
          /\ reassigner = [embedder |-> e, similarity_threshold |-> t,
                           create_unassigned_video |-> u, stats |-> NewStats]
          /\ comment_state = [c \in NativeComments \cup OrphanPool |->
                                 NewComment(c, e /\ c \in NativeComments)]
    /\ videos = <<[id |-> <<"A", "b">>, is_virtual |-> FALSE, comments |-> <<"n1">>],
                  [id |-> <<"b">>, is_virtual |-> FALSE, comments |-> <<"n2">>]>>
    /\ last_call = [n |-> 0, orphaned |-> <<>>]
    /\ LimiterParked
    /\ SearchParked
    /\ EmbedParked

\* ---- pass 1 ----

\* The first of the positions at which a loop over video_ids finds a match, or
\* 0 when it finds none.
FirstWhere(hits) ==
    IF hits = {} THEN 0 ELSE CHOOSE k \in hits : \A j \in hits : k <= j

NoMatch == [video_id |-> NoId, reassigned |-> ""]

\* The rules for one comment with the substring rule tried before the exact one.
PatternMatch_SubstringFirst(parent_id, order) ==
    LET exact == FirstWhere({k \in 1..Len(order) : Lower(order[k]) = Lower(parent_id)})
        substring == FirstWhere({k \in 1..Len(order) : \/ Contains(parent_id, order[k])
                                                       \/ Contains(order[k], parent_id)})
    IN  IF substring # 0
        THEN [video_id |-> order[substring], reassigned |-> "pattern_substring"]
        ELSE IF exact # 0
        THEN [video_id |-> order[exact], reassigned |-> "pattern_exact"]
        ELSE NoMatch

\* orphaned_reassigner.py:106-149, the rules for one comment.  order is the
\* order in which the set video_ids is iterated.
PatternMatch(parent_id, order) ==
    LET exact == FirstWhere({k \in 1..Len(order) : Lower(order[k]) = Lower(parent_id)})
        substring == FirstWhere({k \in 1..Len(order) : \/ Contains(parent_id, order[k])
                                                       \/ Contains(order[k], parent_id)})
    IN  IF exact # 0
        THEN [video_id |-> order[exact], reassigned |-> "pattern_exact"]
        ELSE IF substring # 0
        THEN [video_id |-> order[substring], reassigned |-> "pattern_substring"]
        ELSE IF /\ Contains(parent_id, WatchToken) \/ Contains(parent_id, ShortToken)
                /\ ExtractVideoIdFromUrl(parent_id) \in Range(order)
        THEN [video_id |-> ExtractVideoIdFromUrl(parent_id), reassigned |-> "pattern_url"]
        ELSE NoMatch

\* video_lookup[video_id]: of several videos with one id the dict keeps the last.
VideoLookup(vids, video_id) ==
    CHOOSE k \in 1..Len(vids) :
        /\ vids[k].id = video_id
        /\ \A j \in 1..Len(vids) : vids[j].id = video_id => j <= k

\* models.py:433-440 (Video.add_comment) on the k-th video
AddComment(vids, k, c) == [vids EXCEPT ![k].comments = Append(@, c)]

\* The loop of match_by_pattern over the orphans.  st holds the objects the call
\* works on: comments, videos, stats, and the list `remaining`.
RECURSIVE MatchByPatternLoop(_, _, _)
MatchByPatternLoop(orphaned, order, st) ==
    IF orphaned = <<>> THEN st
    ELSE LET c == Head(orphaned)
             m == PatternMatch(ParentId[c], order)
             after ==
               IF m = NoMatch
               THEN [st EXCEPT !.remaining = Append(@, c)]
               ELSE [st EXCEPT
                       !.videos = AddComment(@, VideoLookup(@, m.video_id), c),
                       !.comments[c].reassigned = m.reassigned,
                       !.comments[c].original_parent_id = ParentId[c]]
         IN  MatchByPatternLoop(Tail(orphaned), order, after)

\* orphaned_reassigner.py:77-163 (match_by_pattern)
MatchByPattern(orphaned, order, st) ==
    LET looped == MatchByPatternLoop(orphaned, order, [st EXCEPT !.remaining = <<>>])
    IN  [looped EXCEPT !.stats.recovered_by_pattern = Len(orphaned) - Len(looped.remaining)]

\* ---- pass 2 ----

\* embedder.py:37-98 (embed_comments) on the orphans: a comment without
\* embedding gets one when the cache or the service delivers it (embedded_now),
\* and is left without when its batch fails.
EmbedComments(cstate, orphaned, embedded_now) ==
    [c \in DOMAIN cstate |->
        IF c \in Range(orphaned) /\ cstate[c].embedding = NoVec /\ c \in embedded_now
        THEN [cstate[c] EXCEPT !.embedding = Vector[c]]
        ELSE cstate[c]]

\* [c.embedding for c in video.comments if c.embedding]
EmbeddingsOf(vid, cstate) ==
    LET embedded_comments == SelectSeq(vid.comments, LAMBDA c : cstate[c].embedding # NoVec)
    IN  [k \in 1..Len(embedded_comments) |-> cstate[embedded_comments[k]].embedding]

\* orphaned_reassigner.py:203-211: the dict video_embeddings as the sequence of
\* its entries in iteration order.  A key stays where it was first inserted and
\* holds the last video inserted under it.
VideoEmbeddings(vids, cstate) ==
    LET withEmb == {k \in 1..Len(vids) : EmbeddingsOf(vids[k], cstate) # <<>>}
        isFirst(k) == k \in withEmb /\ \A j \in withEmb : j < k => vids[j].id # vids[k].id
        last(k) == CHOOSE j \in withEmb :
                      /\ vids[j].id = vids[k].id
                      /\ \A h \in withEmb : vids[h].id = vids[k].id => h <= j
        keys == SelectSeq([k \in 1..Len(vids) |-> k], isFirst)
    IN  [e \in 1..Len(keys) |->
            [video |-> last(keys[e]), embeddings |-> EmbeddingsOf(vids[last(keys[e])], cstate)]]

RECURSIVE SumSimilarities(_, _)
SumSimilarities(embedding, embeddings) ==
    IF embeddings = <<>> THEN 0
    ELSE compute_cosine_similarity(embedding, Head(embeddings))
         + SumSimilarities(embedding, Tail(embeddings))

\* best_video = None, best_score = 0.0; a score is the pair <<sum, count>> of the
\* mean sum / count.
NoBest == [video |-> 0, score |-> <<0, 1>>]

\* orphaned_reassigner.py:237-247: avg_similarity > best_score
RECURSIVE BestVideo(_, _, _)
BestVideo(embedding, entries, best) ==
    IF entries = <<>> THEN best
    ELSE LET sum == SumSimilarities(embedding, Head(entries).embeddings)
             count == Len(Head(entries).embeddings)
         IN  BestVideo(embedding, Tail(entries),
                      IF sum * best.score[2] > best.score[1] * count
                      THEN [video |-> Head(entries).video, score |-> <<sum, count>>]
                      ELSE best)

\* best_video and best_score >= self.similarity_threshold
AboveThreshold(best, threshold) ==
    best.video # 0 /\ best.score[1] >= threshold * best.score[2]

\* The loop of match_by_similarity reading the groups' vectors anew for every
\* orphan instead of the dict built before the loop.
RECURSIVE MatchBySimilarityLoop_Recomputes(_, _, _, _)
MatchBySimilarityLoop_Recomputes(orphaned, entries, threshold, st) ==
    IF orphaned = <<>> THEN st
    ELSE LET c == Head(orphaned)
             best == BestVideo(st.comments[c].embedding,
                               VideoEmbeddings(st.videos, st.comments), NoBest)
             after ==
               IF st.comments[c].embedding = NoVec
               THEN [st EXCEPT !.remaining = Append(@, c)]
               ELSE IF AboveThreshold(best, threshold)
               THEN [st EXCEPT
                       !.videos = AddComment(@, best.video, c),
                       !.comments[c].reassigned = "semantic",
                       !.comments[c].similarity_score = best.score,
                       !.comments[c].original_parent_id = ParentId[c]]
               ELSE [st EXCEPT !.remaining = Append(@, c)]
         IN  MatchBySimilarityLoop_Recomputes(Tail(orphaned), entries, threshold, after)

\* The loop of match_by_similarity over the orphans, orphaned_reassigner.py:219-257.
RECURSIVE MatchBySimilarityLoop(_, _, _, _)
MatchBySimilarityLoop(orphaned, entries, threshold, st) ==
    IF orphaned = <<>> THEN st
    ELSE LET c == Head(orphaned)
             best == BestVideo(st.comments[c].embedding, entries, NoBest)
             after ==
               IF st.comments[c].embedding = NoVec
               THEN [st EXCEPT !.remaining = Append(@, c)]
               ELSE IF AboveThreshold(best, threshold)
               THEN [st EXCEPT
                       !.videos = AddComment(@, best.video, c),
                       !.comments[c].reassigned = "semantic",
                       !.comments[c].similarity_score = best.score,
                       !.comments[c].original_parent_id = ParentId[c]]
               ELSE [st EXCEPT !.remaining = Append(@, c)]
         IN  MatchBySimilarityLoop(Tail(orphaned), entries, threshold, after)

\* orphaned_reassigner.py:165-275 (match_by_similarity)
MatchBySimilarity(orphaned, embedded_now, st) ==
    IF ~reassigner.embedder THEN [st EXCEPT !.remaining = orphaned]
    ELSE IF orphaned = <<>> THEN [st EXCEPT !.remaining = <<>>]
    ELSE LET embedded == [st EXCEPT !.comments = EmbedComments(@, orphaned, embedded_now),
                                    !.remaining = <<>>]
             looped == MatchBySimilarityLoop(orphaned,
                                             VideoEmbeddings(embedded.videos, embedded.comments),
                                             reassigner.similarity_threshold, embedded)
         IN  [looped EXCEPT
                !.stats.recovered_by_similarity = Len(orphaned) - Len(looped.remaining)]

\* ---- pass 3 ----

\* Pass 3 that marks every orphan, those resolved by earlier passes or calls too.
MarkUnassigned_All(orphaned, cstate) ==
    [c \in DOMAIN cstate |->
        IF c \in OrphanPool
        THEN [cstate[c] EXCEPT !.reassigned = "unassigned",
                               !.original_parent_id = ParentId[c]]
        ELSE cstate[c]]

RECURSIVE MarkUnassigned(_, _)
MarkUnassigned(orphaned, cstate) ==
    IF orphaned = <<>> THEN cstate
    ELSE MarkUnassigned(Tail(orphaned),
                        [cstate EXCEPT ![Head(orphaned)].reassigned = "unassigned",
                                       ![Head(orphaned)].original_parent_id =
                                            ParentId[Head(orphaned)]])

\* orphaned_reassigner.py:277-330 (create_unassigned_group) followed by
\* videos.append(unassigned_video) of reassign_comments when a video comes back.
CreateUnassignedGroup(orphaned, st) ==
    IF orphaned = <<>> THEN st
    ELSE IF ~reassigner.create_unassigned_video
    THEN [st EXCEPT !.stats.unassigned = Len(orphaned)]
    ELSE [st EXCEPT
            !.comments = MarkUnassigned(orphaned, @),
            !.videos = Append(@, [id |-> UnassignedId, is_virtual |-> TRUE,
                                   comments |-> orphaned]),
            !.stats.unassigned = Len(orphaned)]

\* ---- reassign_comments ----

\* Pass 2 that loses what pass 1 left over when it has no embedder.
SimilarityPass_DropsWithoutEmbedder(embedded_now, st) ==
    IF reassigner.embedder /\ st.remaining # <<>>
    THEN MatchBySimilarity(st.remaining, embedded_now, st)
    ELSE [st EXCEPT !.remaining = <<>>]

\* orphaned_reassigner.py:373-375, pass 2 when there is an embedder and
\* something remains
SimilarityPass(embedded_now, st) ==
    IF reassigner.embedder /\ st.remaining # <<>>
    THEN MatchBySimilarity(st.remaining, embedded_now, st)
    ELSE st

\* orphaned_reassigner.py:377-382, pass 3 when something remains
UnassignedPass(st) ==
    IF st.remaining # <<>> THEN CreateUnassignedGroup(st.remaining, st) ELSE st

\* orphaned_reassigner.py:384-393
RecoveryRate(st) ==
    [st EXCEPT !.stats.recovery_rate =
        IF st.stats.total_orphaned > 0
        THEN <<st.stats.recovered_by_pattern + st.stats.recovered_by_similarity,
               st.stats.total_orphaned>>
        ELSE <<0, 1>>]

\* The objects reassign_comments works on, after line 354.
CallState(orphaned) ==
    [comments |-> comment_state, videos |-> videos, remaining |-> <<>>,
     stats |-> [reassigner.stats EXCEPT !.total_orphaned = Len(orphaned)]]

\* orphaned_reassigner.py:332-402
ReassignComments(orphaned, order, embedded_now) ==
    IF orphaned = <<>>
    THEN CallState(orphaned)
    ELSE RecoveryRate(
           UnassignedPass(
             SimilarityPass(embedded_now,
                            MatchByPattern(orphaned, order, CallState(orphaned)))))

\* The comments that are in no group: what a caller can hand over as orphans.
Ungrouped == {c \in OrphanPool : \A k \in 1..Len(videos) : c \notin Range(videos[k].comments)}

\* One call reassign_comments(videos, orphaned) on the instance, from entry to
\* return.  order is the iteration order of the set video_ids in this call;
\* embedded_now are the orphans whose embedding the embedder can deliver.
Reassign(orphaned, order, embedded_now) ==
    /\ last_call.n < MaxCalls
    /\ LET st == ReassignComments(orphaned, order, embedded_now)
       IN  /\ reassigner' = [reassigner EXCEPT !.stats = st.stats]
           /\ videos' = st.videos
           /\ comment_state' = st.comments
    /\ last_call' = [n |-> last_call.n + 1, orphaned |-> orphaned]
    /\ UNCHANGED notReassignVars

NextReassign ==
    \E orphaned \in SeqsNoDup(Ungrouped, MaxOrphans) :
        \E order \in IterationOrders({videos[k].id : k \in 1..Len(videos)}) :
            \E embedded_now \in SUBSET {c \in Range(orphaned) :
                                           /\ reassigner.embedder
                                           /\ comment_state[c].embedding = NoVec} :
                Reassign(orphaned, order, embedded_now)

SpecReassign == InitReassign /\ [][NextReassign]_vars

\* The same reassigner on two groups whose ids, 'x' and 'b', are both contained
\* in the parent id 'xb' of orphan o2.
InitOverlap ==
    /\ \E e \in BOOLEAN, u \in BOOLEAN :
          /\ reassigner = [embedder |-> e, similarity_threshold |-> 70,
                           create_unassigned_video |-> u, stats |-> NewStats]
          /\ comment_state = [c \in NativeComments \cup OrphanPool |->
                                 NewComment(c, e /\ c \in NativeComments)]
    /\ videos = <<[id |-> <<"x">>, is_virtual |-> FALSE, comments |-> <<"n1">>],
                  [id |-> <<"b">>, is_virtual |-> FALSE, comments |-> <<"n2">>]>>
    /\ last_call = [n |-> 0, orphaned |-> <<>>]
    /\ LimiterParked
    /\ SearchParked
    /\ EmbedParked

SpecReassignOverlap == InitOverlap /\ [][NextReassign]_vars

(***************************************************************************)
(*                   OpenAIClient: exceptions and retry                    *)
(***************************************************************************)

\* Bounds: embedder and client operations started, comments handed to one
\* embed_comments call, Config.EMBEDDING_BATCH_SIZE.
MaxEmbedOps == 2
MaxEmbedItems == 3
MaxEmbedBatchSize == 2
\* Bound: calls of the CacheManager on its own.
MaxCacheOps == 5

\* openai_client.py:69 and :221, stop_after_attempt(3)
StopAfterAttempt == 3

\* What a call to the external service does: it returns, or it raises an
\* exception of one of these classes of the openai library (or another one).
ServiceOutcomes ==
    {"ok", "OpenAIRateLimitError", "OpenAIAPIConnectionError", "OpenAIError", "Exception"}

\* The classes an exception of the class is an instance of: the openai library's
\* classes, and those of src/core/exceptions.py.
Superclasses(cls) ==
    CASE cls = "OpenAIRateLimitError" -> {"OpenAIRateLimitError", "OpenAIError", "Exception"}
      [] cls = "OpenAIAPIConnectionError" ->
            {"OpenAIAPIConnectionError", "OpenAIError", "Exception"}
      [] cls = "OpenAIError" -> {"OpenAIError", "Exception"}
      [] cls = "RateLimitError" ->
            {"RateLimitError", "AIException", "AppException", "Exception"}
      [] cls = "APIConnectionError" ->
            {"APIConnectionError", "AIException", "AppException", "Exception"}
      [] cls = "AIException" -> {"AIException", "AppException", "Exception"}
      [] cls = "EmbeddingError" ->
            {"EmbeddingError", "AIException", "AppException", "Exception"}
      [] OTHER -> {cls, "Exception"}

IsInstance(cls, classes) == Superclasses(cls) \cap classes # {}

\* The except clauses of create_embedding (openai_client.py:290-304) and of
\* create_completion (:158-187): the class of the exception that leaves the
\* function body when the service raised one of class cls.
Reraised(cls) ==
    IF IsInstance(cls, {"OpenAIRateLimitError"}) THEN "RateLimitError"
    ELSE IF IsInstance(cls, {"OpenAIAPIConnectionError"}) THEN "APIConnectionError"
    ELSE "AIException"

\* retry_if_exception_type((OpenAIRateLimitError, OpenAIAPIConnectionError))
RetryTypes == {"OpenAIRateLimitError", "OpenAIAPIConnectionError"}

\* The decorator of openai_client.py:68-72 and :220-224: it sees the exception
\* that leaves the function body, and retries while that is an instance of one
\* of RetryTypes and fewer than StopAfterAttempt attempts were made.
ShouldRetry(service_error, attempt) ==
    IsInstance(Reraised(service_error), RetryTypes) /\ attempt < StopAfterAttempt

\* What reaches the caller when the decorator gives up: the exception itself
\* when it is not one to retry on, tenacity's RetryError when the attempts are
\* used up.
Propagated(service_error) ==
    IF IsInstance(Reraised(service_error), RetryTypes)
    THEN "RetryError"
    ELSE Reraised(service_error)

NoLast == [operation |-> "", service_error |-> "", error |-> "", attempts |-> 0]

IdleClient ==
    [pc |-> "idle", operation |-> "", texts |-> <<>>, attempt |-> 0, last |-> NoLast]

\* A call that goes to the external service without an acquire of its own.
ClientStart_NoAcquire(cl, operation, texts) ==
    [cl EXCEPT !.pc = "call", !.operation = operation, !.texts = texts, !.attempt = 1,
               !.last = NoLast]

\* A call of create_embedding or create_completion up to its
\* rate_limiter.acquire, first attempt.  (The test of openai_client.py:245 for
\* more than 100 texts is left out: the batches here are far smaller.)
ClientStart(cl, operation, texts) ==
    [cl EXCEPT !.pc = "acquire", !.operation = operation, !.texts = texts, !.attempt = 1,
               !.last = NoLast]

\* The call is over, with service_error "ok" or the exception the service
\* raised last, and error the exception that reaches the caller ("" for none).
ClientOver(cl, service_error, error) ==
    [cl EXCEPT !.pc = "idle", !.operation = "", !.texts = <<>>, !.attempt = 0,
               !.last = [operation |-> cl.operation, service_error |-> service_error,
                         error |-> error, attempts |-> cl.attempt]]

(***************************************************************************)
(*                        Embedder and CacheManager                        *)
(***************************************************************************)

\* The comments handed to the embedder, and comment.cleaned_content of each: two
\* of them have the same text.
EmbedItems == {"e1", "e2", "e3"}
CleanedContent == [e1 |-> "t1", e2 |-> "t1", e3 |-> "t2"]
Texts == {"t1", "t2"}

\* helpers.py:53-63 (hash_text): the SHA256 digest of the text, a key that is
\* not the text and differs for different texts.
hash_text(text) == CASE text = "t1" -> "h1" [] text = "t2" -> "h2"
Hashes == {hash_text(t) : t \in Texts}

\* The vector the external encoder returns for a text.
EncodedVector(text) == CASE text = "t1" -> <<1, 0>> [] text = "t2" -> <<0, 1>>

EmptyCache == [h \in Hashes |-> NoVec]

\* cache_manager.py:46-63 (get_embedding): the vector, or None
get_embedding(text_hash) == cache[text_hash]

\* cache_manager.py:65-77 (set_embedding) on the dict d
SetEmbedding(d, text_hash, embedding) == [d EXCEPT ![text_hash] = embedding]

\* The order in which the entries of the dict go to the file.
HashOrder == <<"h1", "h2">>

\* A dump that writes the first entry of the dict only.
Pickle_FirstEntry(d) ==
    IF d[HashOrder[1]] # NoVec THEN <<<<HashOrder[1], d[HashOrder[1]]>>>>
    ELSE SelectSeq([k \in 1..Len(HashOrder) |-> <<HashOrder[k], d[HashOrder[k]]>>],
                   LAMBDA entry : entry[2] # NoVec)

\* pickle.dump(self.cache, f): the file's bytes, here the entries one by one.
Pickle(d) ==
    SelectSeq([k \in 1..Len(HashOrder) |-> <<HashOrder[k], d[HashOrder[k]]>>],
              LAMBDA entry : entry[2] # NoVec)

\* pickle.load(f) of bytes that pickle.dump wrote.
Unpickle(bytes) ==
    [h \in Hashes |->
        IF \E k \in 1..Len(bytes) : bytes[k][1] = h
        THEN bytes[CHOOSE k \in 1..Len(bytes) : bytes[k][1] = h][2]
        ELSE NoVec]

\* The bytes of a file that pickle.load cannot read: what open(.., 'wb') and a
\* failed dump leave behind.
Corrupt == <<"corrupt">>

NoFile == [exists |-> FALSE, data |-> <<>>]

\* open() fails and the file stays as it was, or open() has truncated the file
\* and the dump fails, or the dict is written.
SaveOutcomes == {"ok", "open_failed", "dump_failed"}

\* A load_cache that ignores a failure to read and keeps the dict in memory
\* when there is nothing it can load.
LoadCache_Stale(load_ok) ==
    IF cache_file.exists /\ cache_file.data # Corrupt
    THEN Unpickle(cache_file.data)
    ELSE cache

\* cache_manager.py:91-105 (load_cache): the new self.cache.  load_ok is whether
\* the file, when it exists, can be opened and read.
LoadCache(load_ok) ==
    IF cache_file.exists /\ load_ok /\ cache_file.data # Corrupt
    THEN Unpickle(cache_file.data)
    ELSE EmptyCache

\* What load_cache found.
LoadOutcome(load_ok) ==
    IF ~cache_file.exists THEN "missing"
    ELSE IF load_ok /\ cache_file.data # Corrupt THEN "ok"
    ELSE "unreadable"

\* cache_manager.py:79-89 (save_cache) of the dict d: the file afterwards.  An
\* exception is logged and not raised.
SaveCache(d, save_outcome) ==
    CASE save_outcome = "ok" -> [exists |-> TRUE, data |-> Pickle(d)]
      [] save_outcome = "open_failed" -> cache_file
      [] save_outcome = "dump_failed" -> [exists |-> TRUE, data |-> Corrupt]

\* cache_manager.py:107-118 (clear_cache): the file afterwards.  A failure of
\* os.remove is logged and not raised.
ClearCache(remove_ok) ==
    IF cache_file.exists /\ remove_ok THEN NoFile ELSE cache_file

\* History: the dict as of the last save_cache whose file is still in place.
NoSnapshot == <<"none">>

Snapshot(w, d, save_outcome) ==
    [w EXCEPT !.saved = CASE save_outcome = "ok" -> d
                          [] save_outcome = "open_failed" -> @
                          [] save_outcome = "dump_failed" -> NoSnapshot]

IdleEmbedder ==
    [pc |-> "idle", op |-> "", force_refresh |-> FALSE, comments |-> <<>>,
     batches |-> <<>>, i |-> 0, text |-> "", result |-> NoVec, error |-> "",
     outcomes |-> <<>>, saves |-> 0, io |-> "", start_cache |-> EmptyCache,
     start_embedding |-> [c \in EmbedItems |-> NoVec],
     prev |-> [comments |-> <<>>, complete |-> FALSE]]

NewWire ==
    [ops |-> 0, calls |-> 0, acquired |-> FALSE, unlimited |-> FALSE,
     encoded |-> [t \in Texts |-> 0], saved |-> NoSnapshot]

\* A CacheManager on an empty cache directory, comments not yet embedded, an
\* Embedder and an OpenAIClient on them.
InitEmbed ==
    /\ embedding_batch_size \in 1..MaxEmbedBatchSize
    /\ cache = EmptyCache
    /\ cache_file = NoFile
    /\ item_embedding = [c \in EmbedItems |-> NoVec]
    /\ embedder = IdleEmbedder
    /\ client = IdleClient
    /\ wire = NewWire
    /\ LimiterParked
    /\ SearchParked
    /\ ReassignParked

\* helpers.py:66-83 (batch_list) for a positive batch size
RECURSIVE batch_list(_, _)
batch_list(items, size) ==
    IF items = <<>> THEN <<>>
    ELSE <<SubSeq(items, 1, Min(size, Len(items)))>>
         \o batch_list(SubSeq(items, Min(size, Len(items)) + 1, Len(items)), size)

\* [c.cleaned_content for c in batch]
TextsOf(batch) == [k \in 1..Len(batch) |-> CleanedContent[batch[k]]]

\* embedder.py:55-65: the comments that need an embedding and get none from the
\* cache.
ToEmbed(comments, force_refresh) ==
    SelectSeq(comments,
              LAMBDA c : /\ force_refresh \/ item_embedding[c] = NoVec
                         /\ ~(get_embedding(hash_text(CleanedContent[c])) # NoVec
                              /\ ~force_refresh))

\* embedder.py:55-63: the comments that get their embedding from the cache.
FromCache(comments, force_refresh) ==
    {c \in Range(comments) : /\ force_refresh \/ item_embedding[c] = NoVec
                             /\ get_embedding(hash_text(CleanedContent[c])) # NoVec
                             /\ ~force_refresh}

\* ---- the operations ----

\* History: one more call has gone to the external service; it used up the
\* acquire that returned before it, or went out without one.
CountCall(w) ==
    [w EXCEPT !.calls = @ + 1, !.acquired = FALSE,
              !.unlimited = @ \/ ~w.acquired]

\* History: an operation begins.
CountOp(w) == [w EXCEPT !.ops = @ + 1, !.calls = 0]

\* History: one more successful encoding of each of the texts, by an operation
\* that does not force a refresh.
CountEncoded(w, texts) ==
    IF embedder.force_refresh THEN w
    ELSE [w EXCEPT !.encoded = [t \in Texts |-> IF t \in Range(texts)
                                                THEN Min(@[t] + 1, 2)
                                                ELSE @[t]]]

\* embedder.py:37-73 (embed_comments) up to the first create_embedding call, or
\* to its return when nothing is left to embed.
embed_comments(comments, force_refresh) ==
    /\ embedder.pc = "idle" /\ client.pc = "idle"
    /\ wire.ops < MaxEmbedOps
    /\ LET to_embed == ToEmbed(comments, force_refresh)
           batches == batch_list(to_embed, embedding_batch_size)
           started == [embedder EXCEPT !.op = "embed_comments",
                                       !.force_refresh = force_refresh,
                                       !.comments = comments,
                                       !.start_cache = cache,
                                       !.start_embedding = item_embedding]
       IN  /\ item_embedding' =
                [c \in EmbedItems |->
                    IF c \in FromCache(comments, force_refresh)
                    THEN get_embedding(hash_text(CleanedContent[c]))
                    ELSE item_embedding[c]]
           /\ IF to_embed = <<>>
              THEN /\ embedder' = [started EXCEPT !.pc = "done"]
                   /\ client' = client
              ELSE /\ embedder' = [started EXCEPT !.pc = "batch", !.batches = batches,
                                                  !.i = 1]
                   /\ client' = ClientStart(client, "create_embedding",
                                            TextsOf(batches[1]))
    /\ wire' = CountOp(wire)
    /\ UNCHANGED <<embedding_batch_size, cache, cache_file>>
    /\ UNCHANGED notEmbedVars

\* embedder.py:100-117 (embed_text) up to its create_embedding call, or to its
\* return on a cache hit.
embed_text(text) ==
    /\ embedder.pc = "idle" /\ client.pc = "idle"
    /\ wire.ops < MaxEmbedOps
    /\ LET cached == get_embedding(hash_text(text))
           started == [embedder EXCEPT !.op = "embed_text", !.text = text,
                                       !.start_cache = cache,
                                       !.start_embedding = item_embedding]
       IN  IF cached # NoVec
           THEN /\ embedder' = [started EXCEPT !.pc = "done", !.result = cached]
                /\ client' = client
           ELSE /\ embedder' = [started EXCEPT !.pc = "text"]
                /\ client' = ClientStart(client, "create_embedding", <<text>>)
    /\ wire' = CountOp(wire)
    /\ UNCHANGED <<embedding_batch_size, cache, cache_file, item_embedding>>
    /\ UNCHANGED notEmbedVars

\* A caller other than the embedder (the search engine's rerank, the hypothesis
\* generator) calls create_completion: openai_client.py:73-106.
CreateCompletion ==
    /\ embedder.pc = "idle" /\ client.pc = "idle"
    /\ wire.ops < MaxEmbedOps
    /\ client' = ClientStart(client, "create_completion", <<>>)
    /\ wire' = CountOp(wire)
    /\ UNCHANGED <<embedding_batch_size, cache, cache_file, item_embedding, embedder>>
    /\ UNCHANGED notEmbedVars

\* self.rate_limiter.acquire(estimated_tokens) of openai_client.py:106 and :253
\* returns.
Acquire ==
    /\ client.pc = "acquire"
    /\ client' = [client EXCEPT !.pc = "call"]
    /\ wire' = [wire EXCEPT !.acquired = TRUE]
    /\ UNCHANGED <<embedding_batch_size, cache, cache_file, item_embedding, embedder>>
    /\ UNCHANGED notEmbedVars

\* embed_text hands a zero vector to its caller when create_embedding raised.
EmbedTextOver_Placeholder(ok, over) ==
    /\ client' = over
    /\ cache' = IF ok
                THEN SetEmbedding(cache, hash_text(embedder.text),
                                  EncodedVector(embedder.text))
                ELSE cache
    /\ embedder' = [embedder EXCEPT !.pc = "done",
                                    !.result = IF ok THEN EncodedVector(embedder.text)
                                               ELSE <<0, 0>>]
    /\ wire' = IF ok THEN CountEncoded(CountCall(wire), <<embedder.text>>)
               ELSE CountCall(wire)
    /\ UNCHANGED <<cache_file, item_embedding>>

\* embedder.py:116-123: embed_text after create_embedding returned or raised.
EmbedTextOver(ok, over) ==
    /\ client' = over
    /\ cache' = IF ok
                THEN SetEmbedding(cache, hash_text(embedder.text),
                                  EncodedVector(embedder.text))
                ELSE cache
    /\ embedder' = IF ok
                   THEN [embedder EXCEPT !.pc = "done",
                                         !.result = EncodedVector(embedder.text)]
                   ELSE [embedder EXCEPT !.pc = "raised", !.error = "EmbeddingError"]
    /\ wire' = IF ok THEN CountEncoded(CountCall(wire), <<embedder.text>>)
               ELSE CountCall(wire)
    /\ UNCHANGED <<cache_file, item_embedding>>

\* The vectors of a batch are assigned to the items but not written to the cache.
CacheWith_NotStored(d, batch) == d

\* The dict after the loop of embedder.py:84-88 over a batch.
CacheWith(d, batch) ==
    [h \in Hashes |->
        IF \E c \in Range(batch) : hash_text(CleanedContent[c]) = h
        THEN EncodedVector(CHOOSE t \in Texts : hash_text(t) = h)
        ELSE d[h]]

\* History of the step below.
EmbedBatchWire(ok, batch, last, new_cache, save_outcome) ==
    IF last
    THEN Snapshot(IF ok THEN CountEncoded(CountCall(wire), TextsOf(batch))
                  ELSE CountCall(wire),
                  new_cache, save_outcome)
    ELSE IF ok THEN CountEncoded(CountCall(wire), TextsOf(batch))
    ELSE CountCall(wire)

\* embedder.py:76-98: embed_comments after create_embedding returned or raised
\* for the batch, on to the next create_embedding call, or to save_cache and
\* the return after the last batch.
EmbedBatchOver(ok, over, save_outcome) ==
    LET batch == embedder.batches[embedder.i]
        last == embedder.i = Len(embedder.batches)
        new_cache == IF ok THEN CacheWith(cache, batch) ELSE cache
    IN  /\ item_embedding' =
             IF ok
             THEN [c \in EmbedItems |-> IF c \in Range(batch)
                                        THEN EncodedVector(CleanedContent[c])
                                        ELSE item_embedding[c]]
             ELSE item_embedding
        /\ cache' = new_cache
        /\ cache_file' = IF last THEN SaveCache(new_cache, save_outcome) ELSE cache_file
        /\ embedder' = [embedder EXCEPT
                          !.outcomes = Append(@, IF ok THEN "ok" ELSE "failed"),
                          !.i = IF last THEN @ ELSE @ + 1,
                          !.saves = IF last THEN @ + 1 ELSE @,
                          !.io = IF last THEN save_outcome ELSE @,
                          !.pc = IF last THEN "done" ELSE "batch"]
        /\ client' = IF last THEN over
                     ELSE ClientStart(over, "create_embedding",
                                      TextsOf(embedder.batches[embedder.i + 1]))
        /\ wire' = EmbedBatchWire(ok, batch, last, new_cache, save_outcome)

\* The call to the external service of openai_client.py:122 and :259, what the
\* except clauses and the retry decorator make of its outcome, and, when the
\* client call is over, the caller's code up to its next client call or its end.
ServiceCall(outcome, save_outcome) ==
    /\ client.pc = "call"
    /\ LET over == ClientOver(client, outcome,
                              IF outcome = "ok" THEN "" ELSE Propagated(outcome))
       IN  IF outcome # "ok" /\ ShouldRetry(outcome, client.attempt)
           THEN /\ client' = [client EXCEPT !.pc = "acquire", !.attempt = @ + 1]
                /\ wire' = CountCall(wire)
                /\ UNCHANGED <<cache, cache_file, item_embedding, embedder>>
           ELSE IF client.operation = "create_completion"
           THEN /\ client' = over
                /\ wire' = CountCall(wire)
                /\ UNCHANGED <<cache, cache_file, item_embedding, embedder>>
           ELSE IF embedder.op = "embed_text"
           THEN EmbedTextOver(outcome = "ok", over)
           ELSE EmbedBatchOver(outcome = "ok", over, save_outcome)
    /\ UNCHANGED embedding_batch_size
    /\ UNCHANGED notEmbedVars

\* The caller has the comments, the vector or the exception.
ReturnEmbed ==
    /\ embedder.pc \in {"done", "raised"}
    /\ embedder' =
         [IdleEmbedder EXCEPT
            !.prev = IF embedder.op = "embed_comments"
                     THEN [comments |-> embedder.comments,
                           complete |-> \A k \in 1..Len(embedder.outcomes) :
                                            embedder.outcomes[k] = "ok"]
                     ELSE embedder.prev]
    /\ UNCHANGED <<embedding_batch_size, cache, cache_file, item_embedding, client, wire>>
    /\ UNCHANGED notEmbedVars

\* ---- the CacheManager called directly ----

\* The vectors a caller may store.
CacheVectors == {<<1, 0>>, <<0, 1>>}

\* The CacheManager call just made, for the record.
CacheCall(op, io) ==
    [IdleEmbedder EXCEPT !.pc = "done", !.op = op, !.io = io, !.start_cache = cache,
                         !.prev = embedder.prev]

\* cache_manager.py:65-77
set_embedding(text_hash, embedding) ==
    /\ embedder.pc = "idle" /\ client.pc = "idle"
    /\ cache' = SetEmbedding(cache, text_hash, embedding)
    /\ embedder' = CacheCall("set_embedding", "")
    /\ wire' = CountOp(wire)
    /\ UNCHANGED <<embedding_batch_size, cache_file, item_embedding, client>>
    /\ UNCHANGED notEmbedVars

\* cache_manager.py:79-89
save_cache(save_outcome) ==
    /\ embedder.pc = "idle" /\ client.pc = "idle"
    /\ cache_file' = SaveCache(cache, save_outcome)
    /\ embedder' = CacheCall("save_cache", save_outcome)
    /\ wire' = Snapshot(CountOp(wire), cache, save_outcome)
    /\ UNCHANGED <<embedding_batch_size, cache, item_embedding, client>>
    /\ UNCHANGED notEmbedVars

\* cache_manager.py:91-105, called on this instance or by the __init__ (lines
\* 22-44) of a new CacheManager on the same directory that takes its place.
load_cache(load_ok) ==
    /\ embedder.pc = "idle" /\ client.pc = "idle"
    /\ cache' = LoadCache(load_ok)
    /\ embedder' = CacheCall("load_cache", LoadOutcome(load_ok))
    /\ wire' = CountOp(wire)
    /\ UNCHANGED <<embedding_batch_size, cache_file, item_embedding, client>>
    /\ UNCHANGED notEmbedVars

\* cache_manager.py:107-118
clear_cache(remove_ok) ==
    /\ embedder.pc = "idle" /\ client.pc = "idle"
    /\ cache' = EmptyCache
    /\ cache_file' = ClearCache(remove_ok)
    /\ embedder' = CacheCall("clear_cache",
                             IF ClearCache(remove_ok).exists THEN "remove_failed" ELSE "ok")
    /\ wire' = [CountOp(wire) EXCEPT
                  !.saved = IF ClearCache(remove_ok).exists THEN @ ELSE NoSnapshot]
    /\ UNCHANGED <<embedding_batch_size, item_embedding, client>>
    /\ UNCHANGED notEmbedVars

NextCache ==
    \/ /\ wire.ops < MaxCacheOps
       /\ \E text_hash \in Hashes, embedding \in CacheVectors :
             set_embedding(text_hash, embedding)
    \/ wire.ops < MaxCacheOps /\ \E save_outcome \in SaveOutcomes : save_cache(save_outcome)
    \/ wire.ops < MaxCacheOps /\ \E load_ok \in BOOLEAN : load_cache(load_ok)
    \/ wire.ops < MaxCacheOps /\ \E remove_ok \in BOOLEAN : clear_cache(remove_ok)
    \/ ReturnEmbed

SpecCache == InitEmbed /\ [][NextCache]_vars

NextEmbed ==
    \/ \E comments \in SeqsNoDup(EmbedItems, MaxEmbedItems), force_refresh \in BOOLEAN :
          embed_comments(comments, force_refresh)
    \/ \E text \in Texts : embed_text(text)
    \/ CreateCompletion
    \/ Acquire
    \/ \E outcome \in ServiceOutcomes, save_outcome \in SaveOutcomes :
          ServiceCall(outcome, save_outcome)
    \/ wire.ops < MaxEmbedOps /\ \E load_ok \in BOOLEAN : load_cache(load_ok)
    \/ ReturnEmbed

SpecEmbed == InitEmbed /\ [][NextEmbed]_vars

(***************************************************************************)
(*                       Claims about the RateLimiter                      *)
(***************************************************************************)

RECURSIVE SumCost(_)
SumCost(log) == IF log = <<>> THEN 0 ELSE log[1].cost + SumCost(Tail(log))

C3_CountersMatchGrants ==
    /\ request_count <= requests_per_minute
    /\ token_count <= tokens_per_minute
    /\ request_count = Len(window_log)
    /\ token_count = SumCost(window_log)

C3_WaitsOnlyWhenFull ==
    \A c \in Callers :
        /\ (pc[c] = "check" /\ pc'[c] = "sleep") =>
              \/ request_count >= requests_per_minute
              \/ token_count + estimated_tokens[c] > tokens_per_minute
        /\ (pc[c] = "check" /\ pc'[c] = "idle") =>
              /\ request_count < requests_per_minute
              /\ token_count + estimated_tokens[c] <= tokens_per_minute

\* C3: under every interleaving of concurrent acquire calls the counters never
\* exceed the caps and equal the number and the total cost of the acquires granted
\* since the window was last reset; a caller whose request fits the window is
\* granted without sleeping, and a caller is never granted in a window that
\* already holds requests_per_minute grants.
C3_LimiterCounters == []C3_CountersMatchGrants /\ [][C3_WaitsOnlyWhenFull]_vars

\* Two cost-1 acquires were granted without sleeping in a window of two requests,
\* and the caller issuing the third is asleep.
C3_Witness ==
    /\ requests_per_minute = 2
    /\ Len(window_log) = 2
    /\ \A i \in 1..2 : window_log[i].cost = 1 /\ ~window_log[i].waited
    /\ \E c \in Callers : pc[c] = "sleep" /\ estimated_tokens[c] = 1

\* C4: every acquire call that has started eventually returns.
C4_AcquireReturns == \A c \in Callers : (pc[c] # "idle") ~> (pc[c] = "idle")

RECURSIVE SumRecent(_, _)
SumRecent(a, field) ==
    IF a < 0 THEN 0
    ELSE (IF field = "n" THEN recent[a].n ELSE recent[a].cost) + SumRecent(a - 1, field)

\* C5: in every interval of Window ticks, wherever it starts, at most
\* requests_per_minute acquires are granted and their total cost is at most
\* tokens_per_minute.
C5_RollingWindowCaps ==
    recent # NoRecent =>
        /\ SumRecent(Window - 1, "n") <= requests_per_minute
        /\ SumRecent(Window - 1, "cost") <= tokens_per_minute

(***************************************************************************)
(*                      Claims about the SearchEngine                      *)
(***************************************************************************)

Returned == search.pc = "done"

\* C6: every score of a returned SearchResult lies in [0, 1] (0..100
\* hundredths), whatever text the completion model returned for a batch.
C6_ScoresInUnitInterval ==
    Returned => \A k \in 1..Len(search.relevance_scores) :
                    search.relevance_scores[k] >= 0 /\ search.relevance_scores[k] <= 100

\* C7: a returned SearchResult has as many scores as items, at most top_k of
\* them and exactly min(top_k, number of filtered candidates), whatever the
\* batches did; with nothing to rerank the result is empty and no completion
\* call was made; the call raises only when embedding the query raised.
C7_ResultLength ==
    /\ Returned =>
         /\ Len(search.relevance_scores) = Len(search.matched_comments)
         /\ Len(search.matched_comments) <= search.top_k
         /\ Len(search.matched_comments) = Min(search.top_k, Len(search.candidates))
         /\ search.candidates = <<>> =>
               /\ search.matched_comments = <<>>
               /\ search.outcomes = <<>>
               /\ search.llm_calls = 0
    /\ search.pc = "raised" => search.query_embedding = NoVec

\* Three candidates, top_k 2, one batch raised and one returned a text that
\* does not parse.
C7_Witness ==
    /\ Returned
    /\ Len(search.candidates) = 3
    /\ search.top_k = 2
    /\ Len(search.matched_comments) = 2
    /\ \E k \in 1..Len(search.outcomes) : search.outcomes[k].raised
    /\ \E k \in 1..Len(search.outcomes) :
          ~search.outcomes[k].raised /\ ~search.outcomes[k].response.parsable

\* The place of a comment in the filtered candidates.
CandidateIndex(c) == CHOOSE k \in 1..Len(search.candidates) : search.candidates[k] = c

\* C8: the returned items are in non-increasing score order, and items of equal
\* score are in the order of the filtered candidates.
C8_StableDescendingOrder ==
    Returned =>
        \A a, b \in 1..Len(search.matched_comments) :
            a < b =>
                /\ search.relevance_scores[a] >= search.relevance_scores[b]
                /\ search.relevance_scores[a] = search.relevance_scores[b] =>
                      CandidateIndex(search.matched_comments[a])
                        < CandidateIndex(search.matched_comments[b])

\* The first candidate scored lowest and the other two tied: the result is the
\* two tied ones, in candidate order.
C8_Witness ==
    /\ Returned
    /\ Len(search.candidates) = 3
    /\ Len(search.matched_comments) = 2
    /\ search.relevance_scores[1] = search.relevance_scores[2]
    /\ search.matched_comments[1] = search.candidates[2]
    /\ search.matched_comments[2] = search.candidates[3]

\* The batch that the k-th completion call was made for: its first and last
\* position in the candidates.
BatchFirst(k) == (k - 1) * batch_size + 1
BatchLast(k) == Min(k * batch_size, Len(search.candidates))

\* What the k-th batch should be scored: the numbers of the response when the
\* call returned a well-formed array of as many numbers as the batch holds, and
\* the neutral score for each of its items otherwise.
BatchDegraded(k) ==
    \/ search.outcomes[k].raised
    \/ ~search.outcomes[k].response.parsable
    \/ Len(search.outcomes[k].response.numbers) # BatchLast(k) - BatchFirst(k) + 1

ExpectedScore(k, p) ==
    IF BatchDegraded(k) THEN 50
    ELSE search.outcomes[k].response.numbers[p - BatchFirst(k) + 1]

C9_ScoresAligned ==
    /\ search.pc \in {"rerank", "done"} =>
         /\ Len(search.all_scores) = BatchLast(Len(search.outcomes))
         /\ \A k \in 1..Len(search.outcomes) :
               \A p \in BatchFirst(k)..BatchLast(k) :
                   search.all_scores[p] = ExpectedScore(k, p)
    /\ Returned =>
         \A a \in 1..Len(search.matched_comments) :
             search.relevance_scores[a]
               = search.all_scores[CandidateIndex(search.matched_comments[a])]

C9_RerankNeverRaises ==
    search.pc = "rerank" => search'.pc \in {"rerank", "done"}

CeilDiv(a, b) == (a + b - 1) \div b

\* C10: the returned call count is 1 plus the number of rerank batches,
\* ceil(filtered candidates / batch size), whatever the completion calls did.
C10_ExternalCallCount ==
    Returned => search.api_calls = 1 + CeilDiv(Len(search.candidates), batch_size)

(***************************************************************************)
(*               Claims about the OrphanedCommentReassigner                *)
(***************************************************************************)

\* C1: after every reassign_comments call on the instance, the first and the
\* later ones, the returned stats balance: total_orphaned equals
\* recovered_by_pattern + recovered_by_similarity + unassigned.
C1_StatsBalance ==
    last_call.n >= 1 =>
        reassigner.stats.total_orphaned
          = reassigner.stats.recovered_by_pattern
            + reassigner.stats.recovered_by_similarity
            + reassigner.stats.unassigned

\* The positions <<group, place>> at which a comment is held.
Memberships(c) ==
    {m \in (1..Len(videos)) \X (1..(Cardinality(NativeComments \cup OrphanPool))) :
        m[2] <= Len(videos[m[1]].comments) /\ videos[m[1]].comments[m[2]] = c}

SyntheticGroups == {k \in 1..Len(videos) : videos[k].is_virtual}

InRealGroup(c) ==
    /\ Cardinality(Memberships(c)) = 1
    /\ \A m \in Memberships(c) : m[1] \notin SyntheticGroups
    /\ comment_state[c].reassigned
         \in {"pattern_exact", "pattern_substring", "pattern_url", "semantic"}

InUnassignedGroup(c) ==
    /\ reassigner.create_unassigned_video
    /\ Cardinality(Memberships(c)) = 1
    /\ \A m \in Memberships(c) : m[1] \in SyntheticGroups
    /\ Cardinality(SyntheticGroups) = 1
    /\ comment_state[c].reassigned = "unassigned"

ReportedUnassigned(c) ==
    /\ ~reassigner.create_unassigned_video
    /\ Memberships(c) = {}
    /\ reassigner.stats.unassigned
         = Cardinality({d \in Range(last_call.orphaned) : Memberships(d) = {}})

\* C2: after reassign_comments returns, every orphan handed to it is in exactly
\* one terminal state: held once by one real group with a pattern or semantic
\* tag; held once by the single synthetic UNASSIGNED group with the tag
\* unassigned; or, with the bucket disabled, held by no group and counted in
\* stats.unassigned.
C2_OneTerminalState ==
    last_call.n >= 1 =>
        \A c \in Range(last_call.orphaned) :
            \/ InRealGroup(c)
            \/ InUnassignedGroup(c)
            \/ ReportedUnassigned(c)

(***************************************************************************)
(*              Claims about the Embedder and the OpenAIClient             *)
(***************************************************************************)

\* The embed_comments call at hand is not forced and is on the item set of the
\* embed_comments call before it, in which every batch succeeded.
SecondCallOnSameItems ==
    /\ embedder.op = "embed_comments"
    /\ ~embedder.force_refresh
    /\ embedder.prev.comments # <<>>
    /\ embedder.prev.complete
    /\ Range(embedder.comments) = Range(embedder.prev.comments)

\* C11: embedding is cache-idempotent.  Without a forced refresh no text is
\* encoded by the external service more than once, whatever the operations
\* that asked for it; and an embed_comments call without forced refresh on the
\* item set of the call before it, all of whose batches succeeded, has nothing
\* to embed and issues no external call.
C11_CacheIdempotent ==
    /\ \A t \in Texts : wire.encoded[t] <= 1
    /\ SecondCallOnSameItems => embedder.batches = <<>> /\ wire.calls = 0

\* The hashes written by the successful batches of the call at hand.
StoredByCall ==
    {hash_text(CleanedContent[c]) :
        c \in UNION {Range(embedder.batches[k]) :
                        k \in {n \in 1..Len(embedder.outcomes) :
                                  embedder.outcomes[n] = "ok"}}}

BatchSucceeded(k) ==
    \A c \in Range(embedder.batches[k]) :
        /\ item_embedding[c] # NoVec
        /\ cache[hash_text(CleanedContent[c])] = item_embedding[c]

BatchSkipped(k) ==
    \A c \in Range(embedder.batches[k]) :
        /\ item_embedding[c] = embedder.start_embedding[c]
        /\ hash_text(CleanedContent[c]) \notin StoredByCall
              => cache[hash_text(CleanedContent[c])]
                    = embedder.start_cache[hash_text(CleanedContent[c])]

\* C12: embed_comments never raises because the encode call of a batch failed.
\* When it returns, every batch has been attempted exactly once, failed or
\* not; the items of a failed batch have the embedding they had before the call
\* and their hashes got no cache entry from that batch; every item of a
\* successful batch has a vector, and the cache holds that vector under the
\* hash of the item's cleaned content.
C12_FailedBatchSkipped ==
    embedder.op = "embed_comments" =>
        /\ embedder.pc # "raised"
        /\ Len(embedder.outcomes) <= Len(embedder.batches)
        /\ embedder.pc = "done" =>
              /\ Len(embedder.outcomes) = Len(embedder.batches)
              /\ \A k \in 1..Len(embedder.batches) :
                    IF embedder.outcomes[k] = "ok" THEN BatchSucceeded(k)
                    ELSE BatchSkipped(k)

\* A call returned in which the first batch failed and the second succeeded.
C12_Witness ==
    /\ embedder.op = "embed_comments"
    /\ embedder.pc = "done"
    /\ embedder.outcomes = <<"failed", "ok">>
    /\ client.last.error = ""

\* C13: embed_text on a text that is in the cache returns the cached vector
\* and issues no external call.  On a text that is not, it calls the service;
\* while the call is under way and when it failed the cache is as it was, and
\* when it failed the caller gets an EmbeddingError and no vector.
C13_EmbedTextFailure ==
    embedder.op = "embed_text" =>
        LET cached == embedder.start_cache[hash_text(embedder.text)]
        IN  IF cached # NoVec
            THEN /\ embedder.pc = "done"
                 /\ embedder.result = cached
                 /\ wire.calls = 0
                 /\ cache = embedder.start_cache
            ELSE /\ embedder.pc = "text" => cache = embedder.start_cache
                 /\ embedder.pc # "text" =>
                       IF client.last.service_error = "ok"
                       THEN embedder.pc = "done" /\ embedder.result # NoVec
                       ELSE /\ embedder.pc = "raised"
                            /\ embedder.error = "EmbeddingError"
                            /\ embedder.result = NoVec
                            /\ cache = embedder.start_cache

\* embed_text raised after the service failed on a cache miss, with another
\* text already in the cache.
C13_Witness ==
    /\ embedder.op = "embed_text"
    /\ embedder.pc = "raised"
    /\ client.last.service_error = "OpenAIError"
    /\ cache # EmptyCache
    /\ cache = embedder.start_cache

\* The errors of the external service that the claim calls transient.
Transient(service_error) == IsInstance(service_error, RetryTypes)

\* C14: a client call whose failure reaches the caller has made all of
\* StopAfterAttempt attempts when the service's error was transient (rate
\* limit, connection), and exactly one attempt when it was not; no call makes
\* more than StopAfterAttempt attempts.
C14_BoundedRetry ==
    /\ client.attempt <= StopAfterAttempt
    /\ client.pc = "idle" /\ client.last.error # "" =>
          IF Transient(client.last.service_error)
          THEN client.last.attempts = StopAfterAttempt
          ELSE client.last.attempts = 1

\* C15: no call has gone to the external service without an acquire of the
\* rate limiter that returned before it in the same attempt: a call about to
\* be issued holds one acquire, an attempt that still has to acquire holds
\* none, and no call of the past went out without one.
C15_AcquireBeforeCall ==
    /\ ~wire.unlimited
    /\ client.pc = "call" => wire.acquired
    /\ client.pc = "acquire" => ~wire.acquired

\* The second batch of an embed_comments call is about to go to the service,
\* after the call for the first batch and a new acquire.
C15_Witness ==
    /\ client.pc = "call"
    /\ client.operation = "create_embedding"
    /\ embedder.i = 2
    /\ wire.calls = 1
    /\ wire.acquired

(***************************************************************************)
(*          Claims about the passes of the OrphanedCommentReassigner       *)
(***************************************************************************)

\* The ids of the groups of vids that hold comment c.
GroupIdsOf(c, vids) ==
    {vids[k].id : k \in {j \in 1..Len(vids) : c \in Range(vids[j].comments)}}

\* The ids of the groups handed to the call.
VideoIds == {videos[k].id : k \in 1..Len(videos)}

ExactIds(c) == {id \in VideoIds : Lower(id) = Lower(ParentId[c])}

SubstringIds(c) ==
    {id \in VideoIds : Contains(ParentId[c], id) \/ Contains(id, ParentId[c])}

UrlIds(c) ==
    IF Contains(ParentId[c], WatchToken) \/ Contains(ParentId[c], ShortToken)
    THEN {ExtractVideoIdFromUrl(ParentId[c])} \cap VideoIds
    ELSE {}

PatternTags == {"pattern_exact", "pattern_substring", "pattern_url"}

\* What pass 1 owes orphan c, by the priority of its rules.
PatternOutcome(c, tag, ids) ==
    /\ comment_state'[c].reassigned = tag
    /\ GroupIdsOf(c, videos') # {}
    /\ GroupIdsOf(c, videos') \subseteq ids

\* A call of reassign_comments is this step.
IsReassignCall == last_call'.n = last_call.n + 1

\* C16: in every call, each orphan whose parent id equals a group id up to
\* case is in such a group afterwards, tagged pattern_exact, although another
\* id may be a substring match; else, when a group id contains the parent id or
\* is contained in it, it is in such a group, tagged pattern_substring; else,
\* when the URL rule yields a group id, it is in that group, tagged pattern_url;
\* else it carries no pattern tag and is left to pass 2 and pass 3.
C16_PatternPriority ==
    [][IsReassignCall =>
         \A c \in Range(last_call'.orphaned) :
            IF ExactIds(c) # {} THEN PatternOutcome(c, "pattern_exact", ExactIds(c))
            ELSE IF SubstringIds(c) # {}
            THEN PatternOutcome(c, "pattern_substring", SubstringIds(c))
            ELSE IF UrlIds(c) # {} THEN PatternOutcome(c, "pattern_url", UrlIds(c))
            ELSE comment_state'[c].reassigned \notin PatternTags]_vars

\* One call had an orphan matching a group id exactly while another id is a
\* substring of its parent id, and an orphan matching by substring only.
C16_Witness ==
    /\ last_call.orphaned = <<"o2", "o1">>
    /\ comment_state["o1"].reassigned = "pattern_exact"
    /\ GroupIdsOf("o1", videos) = {<<"A", "b">>}
    /\ comment_state["o2"].reassigned = "pattern_substring"

\* The comments of the k-th group whose vectors pass 2 of this call averages:
\* the embedded ones that were in the group before pass 2 put orphans into it.
GroupEmbedded(k) ==
    SelectSeq(videos'[k].comments,
              LAMBDA c : /\ comment_state'[c].embedding # NoVec
                         /\ ~(c \in Range(last_call'.orphaned)
                              /\ comment_state'[c].reassigned = "semantic"))

\* The groups that have a mean similarity: those with an embedded comment.
Candidates == {k \in 1..Len(videos) : GroupEmbedded(k) # <<>>}

\* The mean similarity of orphan c to the k-th group, as <<sum, count>>.
GroupMean(c, k) ==
    <<SumSimilarities(comment_state'[c].embedding,
                      [n \in 1..Len(GroupEmbedded(k)) |->
                          comment_state'[GroupEmbedded(k)[n]].embedding]),
      Len(GroupEmbedded(k))>>

MeanAtLeast(m1, m2) == m1[1] * m2[2] >= m2[1] * m1[2]

\* The first group in input order among those with the highest mean.
FirstBest(c) ==
    CHOOSE k \in Candidates :
        /\ \A j \in Candidates : MeanAtLeast(GroupMean(c, k), GroupMean(c, j))
        /\ \A j \in Candidates :
              MeanAtLeast(GroupMean(c, j), GroupMean(c, k)) => k <= j

\* The orphans of the call that pass 1 left over and that have a vector.
SemanticOrphans ==
    {c \in Range(last_call'.orphaned) :
        /\ comment_state'[c].reassigned \notin PatternTags
        /\ comment_state'[c].embedding # NoVec}

\* C17: in every call with an embedder, an orphan with a vector that pass 1
\* left over is assigned in pass 2 if and only if its highest mean similarity
\* to a group is at least the threshold, whatever the threshold; it is then in
\* the first group in input order among those with the highest mean, tagged
\* semantic with that mean as score; otherwise it is not tagged semantic (it
\* goes to pass 3).
C17_SemanticAssignment ==
    [][IsReassignCall /\ reassigner.embedder =>
         \A c \in SemanticOrphans :
            IF /\ Candidates # {}
               /\ MeanAtLeast(GroupMean(c, FirstBest(c)),
                              <<reassigner.similarity_threshold, 1>>)
            THEN /\ comment_state'[c].reassigned = "semantic"
                 /\ c \in Range(videos'[FirstBest(c)].comments)
                 /\ comment_state'[c].similarity_score = GroupMean(c, FirstBest(c))
            ELSE comment_state'[c].reassigned # "semantic"]_vars

\* What pass 3 makes of an orphan that reaches it as the earlier passes found it.
LeftToPassThree(c) ==
    /\ comment_state[c].embedding = NoVec
    /\ comment_state[c].similarity_score = NoScore
    /\ IF reassigner.create_unassigned_video
       THEN /\ comment_state[c].reassigned = "unassigned"
            /\ GroupIdsOf(c, videos) = {UnassignedId}
       ELSE /\ comment_state[c].reassigned = ""
            /\ GroupIdsOf(c, videos) = {}

\* C18: on an instance without embedder every call returns; no orphan is ever
\* embedded or tagged semantic, every orphan of the call that no pattern rule
\* matched is where pass 3 puts an orphan that nothing has touched, and the
\* stats report recovered_by_similarity = 0.
C18_NoEmbedderDegrades ==
    ~reassigner.embedder =>
        /\ reassigner.stats.recovered_by_similarity = 0
        /\ \A c \in OrphanPool :
              /\ comment_state[c].reassigned # "semantic"
              /\ comment_state[c].embedding = NoVec
        /\ \A c \in Range(last_call.orphaned) :
              comment_state[c].reassigned \notin PatternTags => LeftToPassThree(c)

\* A call without embedder returned with one orphan matched by a pattern and
\* one left to pass 3.
C18_Witness ==
    /\ ~reassigner.embedder
    /\ reassigner.create_unassigned_video
    /\ last_call.orphaned = <<"o4", "o1">>
    /\ comment_state["o4"].reassigned = "unassigned"
    /\ reassigner.stats.unassigned = 1

\* comment.metadata['reassigned'], ['original_parent_id'], ['similarity_score']
Provenance(cstate, c) ==
    <<cstate[c].reassigned, cstate[c].original_parent_id, cstate[c].similarity_score>>

\* Whatever provenance is set in before is the same in after.
WriteOnce(before, after) ==
    \A c \in DOMAIN before :
        before[c].reassigned # "" => Provenance(after, c) = Provenance(before, c)

\* Pass 3 changes nothing that is set after pass 2 (p2).
PassThreeWriteOnce(p2) == WriteOnce(p2.comments, UnassignedPass(p2).comments)

\* Pass 2 changes nothing that is set after pass 1 (p1), nor does pass 3 after it.
PassTwoWriteOnce(p1, p2) ==
    /\ WriteOnce(p1.comments, p2.comments)
    /\ PassThreeWriteOnce(p2)

\* No pass of the call changes what was set before the call or by a pass before it.
PassesWriteOnce(embedded_now, p1) ==
    /\ WriteOnce(comment_state, p1.comments)
    /\ PassTwoWriteOnce(p1, SimilarityPass(embedded_now, p1))

C20_ConfigRejected ==
    last_call.n > 0 => reassigner.similarity_threshold >= 0

(***************************************************************************)
(*                     Claims about the CacheManager                       *)
(***************************************************************************)

CacheAfterBatches ==
    [h \in Hashes |->
        IF h \in StoredByCall THEN EncodedVector(CHOOSE t \in Texts : hash_text(t) = h)
        ELSE embedder.start_cache[h]]

\* C22: failures of the cache's persistence never reach the caller.  A
\* load_cache that finds no store or cannot read it returns with the empty
\* dict; an embed_comments call whose final save_cache fails returns all the
\* same, with the dict in memory as the batches left it and the vectors on the
\* items of the successful batches.
C22_PersistenceFailuresSwallowed ==
    /\ embedder.op = "load_cache" =>
          /\ embedder.pc = "done"
          /\ embedder.io \in {"missing", "unreadable"} => cache = EmptyCache
    /\ embedder.op = "embed_comments" /\ embedder.saves > 0 /\ embedder.io # "ok" =>
          /\ embedder.pc = "done"
          /\ cache = CacheAfterBatches
          /\ \A k \in 1..Len(embedder.batches) :
                embedder.outcomes[k] = "ok" => BatchSucceeded(k)

\* An embed_comments call returned after its batch succeeded and its
\* save_cache failed half-way.
C22_Witness ==
    /\ embedder.op = "embed_comments"
    /\ embedder.pc = "done"
    /\ embedder.outcomes = <<"ok">>
    /\ embedder.io = "dump_failed"
    /\ cache # EmptyCache

\* C25: every embed_comments call saves the cache exactly once, after its last
\* batch: no save has happened while batches are left, and exactly one has
\* when the call returns, however many comments had to be embedded.
C25_PersistedOnceAfterBatches ==
    embedder.op = "embed_comments" =>
        /\ embedder.pc = "batch" => embedder.saves = 0
        /\ embedder.pc = "done" => embedder.saves = 1

\* The places, batch and position, at which the call at hand has had the text
\* encoded by the external service.
EncodedAt(t) ==
    {place \in (1..Len(embedder.outcomes)) \X (1..MaxEmbedBatchSize) :
        /\ embedder.outcomes[place[1]] = "ok"
        /\ place[2] <= Len(embedder.batches[place[1]])
        /\ CleanedContent[embedder.batches[place[1]][place[2]]] = t}

\* C30: within one embed_comments call a text that was not in the cache is
\* encoded by the external service at most once, however many comments
\* without an embedding share it.
C30_SharedTextEncodedOnce ==
    embedder.op = "embed_comments" /\ ~embedder.force_refresh =>
        \A t \in Texts :
            embedder.start_cache[hash_text(t)] = NoVec => Cardinality(EncodedAt(t)) <= 1

\* A caller is suspended in time.sleep().
Suspended(c) == pc[c] = "sleep" /\ sleep_left[c] > 0

\* While a caller is suspended, another caller gets the lock when it asks for it
\* and is granted when its request fits what the window has left.
OthersProceed ==
    \A c, d \in Callers :
        Suspended(c) /\ d # c =>
            /\ pc[d] = "enter" => ENABLED Enter(d)
            /\ pc[d] = "check" /\ ~MustWait(d) => ENABLED Grant(d)

\* Whenever a caller is inside acquire(), some caller can take a step or some
\* caller's sleep is still running.
NoLimiterDeadlock ==
    (\E c \in Callers : pc[c] # "idle") =>
        \E d \in Callers : ENABLED CallerStep(d) \/ Suspended(d)

\* A step that writes a counter or restarts the window is a step of a caller
\* that holds the lock when it writes.
CountersUnderLock ==
    (request_count' # request_count \/ token_count' # token_count
        \/ window_age' < window_age) =>
        \E c \in Callers : (lock = c \/ lock' = c) /\ pc[c] # "idle" /\ pc'[c] # pc[c]

\* C23: the limiter's lock is never held by a sleeping caller: the lock is held
\* only by a caller at the loop test, so it is free while a caller sleeps and
\* when acquire has returned; while one caller sleeps another whose request
\* fits is granted without waiting for it; the counters and the window are
\* written only by the holder of the lock; and the callers never block each
\* other for good.
C23_LockReleasedWhileSuspended ==
    /\ [](\A c \in Callers : lock = c => pc[c] = "check")
    /\ []OthersProceed
    /\ []NoLimiterDeadlock
    /\ [][CountersUnderLock]_vars

\* One caller sleeps until the window resets while the other, whose request
\* fits, holds the lock at the loop test without having slept.
C23_Witness ==
    /\ Suspended("c1")
    /\ lock = "c2"
    /\ pc["c2"] = "check"
    /\ ~MustWait("c2")
    /\ ~waited["c2"]

\* The cosine similarity of a comment of the group to the query of the search
\* at hand, and the comments of the group that have an embedding.
QuerySimilarity(c) ==
    compute_cosine_similarity(search.query_embedding, SearchComments[c].embedding)

WithEmbedding == {c \in Range(video) : SearchComments[c].embedding # NoVec}

\* C24: stage 1 returns the min(2 * top_k, V) most similar of the V comments
\* that have an embedding, each once and with its similarity, most similar
\* first; a comment without embedding is never among them, no comment left out
\* is more similar than one returned, and of two returned comments the more
\* similar one comes first.
C24_StageOnePool ==
    search.pc \in {"rerank", "done"} =>
        LET pool == Firsts(search.top_results)
        IN  /\ Len(pool) = Min(2 * search.top_k, Cardinality(WithEmbedding))
            /\ Range(pool) \subseteq WithEmbedding
            /\ \A i \in 1..Len(pool) :
                  search.top_results[i][2] = QuerySimilarity(pool[i])
            /\ \A i, j \in 1..Len(pool) :
                  /\ i # j => pool[i] # pool[j]
                  /\ i < j => QuerySimilarity(pool[i]) >= QuerySimilarity(pool[j])
                  /\ QuerySimilarity(pool[i]) > QuerySimilarity(pool[j]) => i < j
            /\ \A c \in WithEmbedding \ Range(pool), d \in Range(pool) :
                  QuerySimilarity(d) >= QuerySimilarity(c)

\* Stage 1 has cut three comments with an embedding down to two, the more
\* similar of the first two comments of the group being the second of them.
C24_Witness ==
    /\ search.pc \in {"rerank", "done"}
    /\ Cardinality(WithEmbedding) = 3
    /\ Len(search.top_results) = 2
    /\ search.top_results[1][1] \notin {video[1], video[2]}
    /\ search.top_results[1][2] > search.top_results[2][2]

\* C26: in every call, an orphan whose parent id is a URL with a group id after
\* 'watch?v=' or 'youtu.be/' and equals no group id up to case is afterwards
\* in that group, tagged pattern_url.
C26_PatternUrlAttainable ==
    [][IsReassignCall =>
         \A c \in Range(last_call'.orphaned) :
            UrlIds(c) # {} /\ ExactIds(c) = {} =>
                PatternOutcome(c, "pattern_url", UrlIds(c))]_vars

\* What pass 1 of the call of this step would have done with orphan c, had the
\* set video_ids been iterated in this order, is what the call did with it.
SameUnderOrder(c, order) ==
    IF PatternMatch(ParentId[c], order) = NoMatch
    THEN comment_state'[c].reassigned \notin PatternTags
    ELSE PatternOutcome(c, PatternMatch(ParentId[c], order).reassigned,
                        {PatternMatch(ParentId[c], order).video_id})

\* C27: pass 1 is deterministic.  In every call the group and the tag that
\* pass 1 gives an orphan are those of any other run of pass 1 on the same
\* lists of groups and orphans, also for an orphan that matches several group
\* ids.
C27_PassOneDeterministic ==
    [][IsReassignCall =>
         \A c \in Range(last_call'.orphaned) :
            \A order \in IterationOrders(VideoIds) : SameUnderOrder(c, order)]_vars

\* What a pass has made of each of these orphans: tag, score and group.
AssignmentOf(st, orphans) ==
    [c \in orphans |-> <<st.comments[c].reassigned, st.comments[c].similarity_score,
                         GroupIdsOf(c, st.videos)>>]

\* Pass 2 on what pass 1 left over gives every orphan the same tag, score and
\* group in whatever order it gets the orphans.
PermutedAlike(st, embedded_now) ==
    \A permuted \in IterationOrders(Range(st.remaining)) :
        AssignmentOf(MatchBySimilarity(permuted, embedded_now, st), Range(st.remaining))
          = AssignmentOf(MatchBySimilarity(st.remaining, embedded_now, st),
                         Range(st.remaining))

\* C28: pass 2 does not depend on the order of the orphans.  For every call
\* made on an instance with an embedder, the first and the later ones, pass 2
\* gives each orphan that pass 1 left over the same tag, score and group for
\* every permutation of the list.
C28_PassTwoOrderIndependent ==
    reassigner.embedder /\ last_call.n < MaxCalls =>
        \A orphaned \in SeqsNoDup(Ungrouped, MaxOrphans) :
            \A order \in IterationOrders(VideoIds) :
                \A embedded_now \in SUBSET {c \in Range(orphaned) :
                                               comment_state[c].embedding = NoVec} :
                    PermutedAlike(MatchByPattern(orphaned, order, CallState(orphaned)),
                                  embedded_now)

\* Pass 2 of one call has put two orphans into the same group: the second was
\* scored against a group that held the first already.
C28_Witness ==
    /\ Len(last_call.orphaned) = 2
    /\ \A c \in Range(last_call.orphaned) : comment_state[c].reassigned = "semantic"
    /\ GroupIdsOf(last_call.orphaned[1], videos) = GroupIdsOf(last_call.orphaned[2], videos)

\* C29: after any sequence of reassign_comments calls on the same list of
\* groups, no two groups of the list have the same id, and at most one of them
\* is the synthetic UNASSIGNED group.
C29_GroupIdsDistinct ==
    /\ \A j, k \in 1..Len(videos) : j # k => videos[j].id # videos[k].id
    /\ Cardinality({k \in 1..Len(videos) : videos[k].id = UnassignedId}) <= 1
    /\ Cardinality(SyntheticGroups) <= 1

====
